---- MODULE Spec2Model ----
(***************************************************************************)
(* Historical price resolution engine of the crypto portfolio tracker      *)
(* (src/gui.py): the file cache, the retrying GET, the five-strategy fetch *)
(* cascade, day de-duplication and slicing.                                *)
(*                                                                         *)
(* Units.  Timestamps are whole seconds since the epoch; the code holds    *)
(* them in milliseconds and divides by 1000 before every use, so a model   *)
(* timestamp t stands for the code's ts_ms = 1000 * t.  A date is the      *)
(* number of whole days since the epoch.  Prices are in cents (1.00 USD is *)
(* 100).  A Python str is the sequence of the pieces it was formatted      *)
(* from, so that concatenation is \o and a piece can be looked for.        *)
(***************************************************************************)
EXTENDS Integers, Sequences, FiniteSets, TLC

VARIABLES now, tz, cache, put, out, calls, ticks, batch, ret

vars == <<now, tz, cache, put, out, calls, ticks, batch, ret>>

-----------------------------------------------------------------------------
(* Bounds of the model *)

MaxCalls == 2
MaxTicks == 1
MaxHistoryDays == 370

-----------------------------------------------------------------------------
(* Program constants *)

DAY == 86400
CACHE_TTL_SECONDS == 6 * 3600
REQ_TRIES == 4
WINDOW_DAYS == 30
ONE_USD == 100

STABLES == {"USDT", "USDC", "DAI", "FRAX", "TUSD", "USDD"}

\* The part of CG_IDS the model draws its symbols from.
CG_IDS ==
  [s \in {"ADA", "BNB", "BTC", "DOGE", "ETH", "SOL", "USDT", "XRP"} |->
     CASE s = "ADA" -> "cardano"
       [] s = "USDT" -> "tether"
       [] s = "BNB" -> "binancecoin"
       [] s = "BTC" -> "bitcoin"
       [] s = "DOGE" -> "dogecoin"
       [] s = "ETH" -> "ethereum"
       [] s = "SOL" -> "solana"
       [] s = "XRP" -> "ripple"]

CG_BASE == "https://api.coingecko.com/api/v3"

\* The parent loop without its first element.
PARENTS_short == <<180, 90>>

\* `for parent in (365, 180, 90)`
PARENTS == <<365, 180, 90>>
OHLC_ALLOWED == <<365, 180, 90, 30, 14, 7>>

\* str.upper() on the symbols the model uses.
Upper(s) ==
  CASE s = "usdt" -> "USDT"
    [] s = "btc" -> "BTC"
    [] s = "xyz" -> "XYZ"
    [] OTHER -> s

-----------------------------------------------------------------------------
(* Python values *)

\* Optional[...]: None is [some |-> FALSE].
NoneList == [some |-> FALSE, val |-> <<>>]
SomeList(v) == [some |-> TRUE, val |-> v]
NoneStr == [some |-> FALSE, val |-> <<>>]
SomeStr(s) == [some |-> TRUE, val |-> s]

\* Truth value of an Optional list / Optional str (None and empty are falsy).
TruthyList(o) == o.some /\ o.val # <<>>
TruthyStr(o) == o.some /\ o.val # <<>>

\* `reason or ''`
OrEmpty(o) == IF TruthyStr(o) THEN o.val ELSE <<>>

\* series[-n:] for n >= 0 (Python: -0 is 0, so series[-0:] is the whole list).
LastN(series, n) ==
  IF n = 0 \/ Len(series) <= n THEN series
  ELSE SubSeq(series, Len(series) - n + 1, Len(series))

\* Exceptions: the class raised and its args tuple.
NoExc == [some |-> FALSE, type |-> "", args |-> <<>>]
Exc(t, a) == [some |-> TRUE, type |-> t, args |-> a]

\* requests.RequestException and its subclasses.
IsRequestException(e) == e.type \in {"HTTPError", "ReadTimeout", "ConnectionError"}

\* `except Exception`: every exception the engine meets derives from Exception.
IsException(e) == e.type \in {"RuntimeError", "HTTPError", "ReadTimeout", "ConnectionError"}

\* getattr(e, 'args', [str(e)])[0]
Arg0(e) == e.args[1]

-----------------------------------------------------------------------------
(* Dates *)

\* dt.date.fromtimestamp(ts_ms / 1000.0): the calendar day of ts in the
\* machine's local timezone (tzOff seconds east of UTC).
date_fromtimestamp(ts, tzOff) == (ts + tzOff) \div DAY

\* dt.date.today()
date_today(t, tzOff) == date_fromtimestamp(t, tzOff)

\* _ms(d): the timestamp of 00:00 UTC of day d.
_ms(d) == d * DAY

-----------------------------------------------------------------------------
(* Cache helpers.  The cache directory is a function from the keys whose    *)
(* file exists, <<cg_id, days>>, to the file: its JSON content and mtime.   *)

\* _cache_path(cg_id, days)
_cache_path(cg_id, days) == <<cg_id, days>>

\* _cache_get with the test `>= CACHE_TTL_SECONDS`: an entry whose age is
\* exactly the TTL is already expired.
_cache_get_strict(files, cg_id, days, t) ==
  LET p == _cache_path(cg_id, days) IN
  IF p \notin DOMAIN files THEN NoneList
  ELSE IF t - files[p].mtime >= CACHE_TTL_SECONDS THEN NoneList
  ELSE IF ~files[p].whole THEN NoneList
  ELSE SomeList(files[p].prices)

\* _cache_get with the test turned round, `< CACHE_TTL_SECONDS`: a young entry
\* is taken for an expired one.
_cache_get_inverted(files, cg_id, days, t) ==
  LET p == _cache_path(cg_id, days) IN
  IF p \notin DOMAIN files THEN NoneList
  ELSE IF t - files[p].mtime < CACHE_TTL_SECONDS THEN NoneList
  ELSE IF ~files[p].whole THEN NoneList
  ELSE SomeList(files[p].prices)

\* _cache_get(cg_id, days) at time t.
_cache_get(files, cg_id, days, t) ==
  LET p == _cache_path(cg_id, days) IN
  IF p \notin DOMAIN files THEN NoneList
  ELSE IF t - files[p].mtime > CACHE_TTL_SECONDS THEN NoneList
  ELSE IF ~files[p].whole THEN NoneList
  ELSE SomeList(files[p].prices)

\* _cache_get_raw(cg_id, days)
_cache_get_raw(files, cg_id, days) ==
  LET p == _cache_path(cg_id, days) IN
  IF p \notin DOMAIN files THEN NoneList
  ELSE IF ~files[p].whole THEN NoneList
  ELSE SomeList(files[p].prices)

\* What the disk does to a write: it takes it, or open() raises, or open()
\* succeeds and json.dump (or the close that flushes it) raises.
DiskOk == "ok"
OpenFails == "open fails"
DumpFails == "dump fails"
DiskModes == {DiskOk, OpenFails, DumpFails}

\* A file holding the whole JSON document, and one that open(p, "w") emptied
\* and the failed dump left without one (json.load raises on it).
WholeFile(payload, t) ==
  [prices |-> payload, cached_at |-> t, mtime |-> t, whole |-> TRUE]
BrokenFile(t) ==
  [prices |-> <<>>, cached_at |-> 0, mtime |-> t, whole |-> FALSE]

\* _cache_set writing every series under the 365-day key of the coin.
_cache_set_365(files, cg_id, days, payload, t, io) ==
  LET p == _cache_path(cg_id, 365) IN
  IF io = OpenFails THEN files
  ELSE [k \in DOMAIN files \cup {p} |->
          IF k = p
            THEN IF io = DiskOk THEN WholeFile(payload, t) ELSE BrokenFile(t)
            ELSE files[k]]

\* _cache_set(cg_id, days, payload) at time t on a disk behaving as io: the
\* directory afterwards.  Whatever is raised is dropped by `except Exception:
\* pass`.
_cache_set(files, cg_id, days, payload, t, io) ==
  LET p == _cache_path(cg_id, days) IN
  IF io = OpenFails THEN files
  ELSE [k \in DOMAIN files \cup {p} |->
          IF k = p
            THEN IF io = DiskOk THEN WholeFile(payload, t) ELSE BrokenFile(t)
            ELSE files[k]]

-----------------------------------------------------------------------------
(* Day de-duplication and slicing *)

\* The loop of _dedupe_by_day over prices_array[lo..hi]: per[d] = float(price),
\* a later point overwriting an earlier one of the same day.  (The range is
\* halved rather than walked so that the evaluation stays shallow; the test
\* on DOMAIN makes TLC compute the left half before it descends.)
RECURSIVE DedupeLoop(_, _, _, _, _)
DedupeLoop(arr, lo, hi, tzOff, per) ==
  IF lo > hi THEN per
  ELSE IF lo = hi
    THEN [per EXCEPT ![date_fromtimestamp(arr[lo][1], tzOff)] = arr[lo][2]]
  ELSE LET mid == (lo + hi) \div 2
           left == DedupeLoop(arr, lo, mid, tzOff, per)
       IN IF DOMAIN left = {} THEN left
          ELSE DedupeLoop(arr, mid + 1, hi, tzOff, left)

\* sorted(keys): the ascending sequence of a non-empty set of dates.
SortedDates(ds) ==
  LET lo == CHOOSE a \in ds : \A b \in ds : a <= b
      nhi == CHOOSE a \in {0 - d : d \in ds} : \A b \in ds : a <= 0 - b
      hi == 0 - nhi
  IN SelectSeq([k \in 1..(hi - lo + 1) |-> lo + k - 1], LAMBDA d : d \in ds)

\* _dedupe_by_day without the dictionary: every point kept, in input order.
_dedupe_by_day_all(prices_array, tzOff) ==
  [k \in 1..Len(prices_array) |->
     <<date_fromtimestamp(prices_array[k][1], tzOff), prices_array[k][2]>>]

\* _dedupe_by_day keeping the first point of each day instead of the last.
_dedupe_by_day_first(prices_array, tzOff) ==
  IF prices_array = <<>> THEN <<>>
  ELSE
    LET ds == {date_fromtimestamp(prices_array[i][1], tzOff) :
                 i \in 1..Len(prices_array)}
        keys == SortedDates(ds)
        first(d) == CHOOSE i \in 1..Len(prices_array) :
                      /\ date_fromtimestamp(prices_array[i][1], tzOff) = d
                      /\ \A j \in 1..(i - 1) :
                           date_fromtimestamp(prices_array[j][1], tzOff) # d
    IN [k \in 1..Len(keys) |-> <<keys[k], prices_array[first(keys[k])][2]>>]

\* _dedupe_by_day(prices_array) on a machine whose timezone is tzOff.
_dedupe_by_day(prices_array, tzOff) ==
  IF prices_array = <<>> THEN <<>>
  ELSE
    LET ds == {date_fromtimestamp(prices_array[i][1], tzOff) :
                 i \in 1..Len(prices_array)}
        per == DedupeLoop(prices_array, 1, Len(prices_array), tzOff,
                          [d \in ds |-> 0])
        keys == SortedDates(ds)
    IN [k \in 1..Len(keys) |-> <<keys[k], per[keys[k]]>>]

\* _slice_last_days cutting by number of points instead of by date.
_slice_last_days_count(series, days) == LastN(series, days)

\* _slice_last_days(series, days)
_slice_last_days(series, days) ==
  IF series = <<>> THEN <<>>
  ELSE LET cutoff == series[Len(series)][1] - (days - 1)
       IN SelectSeq(series, LAMBDA p : p[1] >= cutoff)

\* [[_ms(d), v] for d, v in series]
Payload(series) == [k \in 1..Len(series) |-> <<_ms(series[k][1]), series[k][2]>>]


-----------------------------------------------------------------------------
(* The upstream API.  What it answers is not the program's to decide: a     *)
(* call is checked against every behaviour of a bounded family.  The        *)
(* endpoint of strategy s answers its j-th GET within one call with         *)
(* first[j], and every later GET with rest.  An answer is a transport       *)
(* failure, or an HTTP status, and for status 200 the shape of its body.    *)

Transport == [transport |-> TRUE, status |-> 0, shape |-> ""]
Status(n) == [transport |-> FALSE, status |-> n, shape |-> ""]
Ok(shape) == [transport |-> FALSE, status |-> 200, shape |-> shape]

Always(a) == [first |-> <<>>, rest |-> a]
Then(pre, a) == [first |-> pre, rest |-> a]

AnswerOf(b, j) == IF j <= Len(b.first) THEN b.first[j] ELSE b.rest

\* The price the upstream quotes for a coin at time ts through the endpoint of
\* strategy s.
Quote(cg_id, s, ts) ==
  (IF cg_id = "bitcoin" THEN 0 ELSE 500) + 1000 * s + ((ts \div 3600) % 89) + 1

\* The timestamps of a body of the given shape that covers [from, to]:
\*   daily     every 00:00 UTC in the interval, then `to` itself;
\*   sparse    every third day, counted back from `to`;
\*   intraday  every 8 hours, counted back from `to`, at most 7 points.
ShapeTimes(shape, from, to) ==
  CASE shape = "daily" ->
         LET m0 == ((from + DAY - 1) \div DAY) * DAY
             n == IF to >= m0 THEN (to - m0) \div DAY + 1 ELSE 0
             mids == [k \in 1..n |-> m0 + (k - 1) * DAY]
         IN IF to % DAY = 0 THEN mids ELSE Append(mids, to)
    [] shape = "sparse" ->
         LET n == (to - from) \div (3 * DAY) + 1
         IN [k \in 1..n |-> to - (n - k) * 3 * DAY]
    [] shape = "intraday" ->
         LET m == (to - from) \div 28800 + 1
             n == IF m > 7 THEN 7 ELSE m
         IN [k \in 1..n |-> to - (n - k) * 28800]
    [] OTHER -> <<>>

\* The JSON of a 200 answer.  market_chart and market_chart/range answer an
\* object {"prices": [[ts, price], ...]}, ohlc a list of rows
\* [ts, open, high, low, close].
ChartJson(cg_id, s, shape, from, to) ==
  LET ts == ShapeTimes(shape, from, to)
  IN [isList |-> FALSE, rows |-> <<>>,
      prices |-> [k \in 1..Len(ts) |-> <<ts[k], Quote(cg_id, s, ts[k])>>]]

OhlcJson(cg_id, s, shape, from, to) ==
  LET ts == ShapeTimes(shape, from, to)
  IN [isList |-> TRUE, prices |-> <<>>,
      rows |-> [k \in 1..Len(ts) |->
                  LET c == Quote(cg_id, s, ts[k]) IN <<ts[k], c + 1, c + 3, c - 1, c>>]]

NoJson == [isList |-> FALSE, rows |-> <<>>, prices |-> <<>>]

\* A request: the strategy that issues it, the endpoint, and the interval of
\* time its parameters ask for (days = "max" asks for the whole history).
Request(s, cg_id, endpoint, from, to) ==
  [strategy |-> s, coin |-> cg_id, endpoint |-> endpoint, from |-> from, to |-> to]

BodyOf(rq, shape) ==
  IF rq.endpoint = "ohlc"
    THEN OhlcJson(rq.coin, rq.strategy, shape, rq.from, rq.to)
    ELSE ChartJson(rq.coin, rq.strategy, shape, rq.from, rq.to)

-----------------------------------------------------------------------------
(* The HTTP fetch primitive *)

\* The query string requests builds from params: what strategy s asks for the
\* interval [from, to].
QueryOf(rq) ==
  "vs_currency=usd" \o
  (CASE rq.strategy \in {1, 2, 4} ->
          "&days=" \o ToString((rq.to - rq.from) \div DAY) \o
          (IF rq.strategy = 1 THEN "&interval=daily" ELSE "")
     [] rq.strategy = 3 -> "&days=max&interval=daily"
     [] rq.strategy = 5 ->
          "&from=" \o ToString(rq.from) \o "&to=" \o ToString(rq.to))

\* r.url
UrlOf(rq) == CG_BASE \o "/coins/" \o rq.coin \o "/" \o rq.endpoint \o "?" \o QueryOf(rq)

\* The reason phrase of a status line.
ReasonPhrase(status) ==
  CASE status = 400 -> "Bad Request"
    [] status = 401 -> "Unauthorized"
    [] status = 403 -> "Forbidden"
    [] status = 404 -> "Not Found"
    [] OTHER -> "Error"

\* r.raise_for_status(): HTTPError for a 4xx or 5xx status; its message is
\* f"{status} Client Error: {reason} for url: {url}".
HTTPErrorOf(status, rq) ==
  Exc("HTTPError",
      <<ToString(status) \o
          (IF status < 500 THEN " Client Error: " ELSE " Server Error: ") \o
          ReasonPhrase(status) \o " for url: " \o UrlOf(rq)>>)

TransportError == Exc("ReadTimeout", <<"Read timed out.">>)

\* The loop of _req from attempt i on (i = 0 .. tries-1); b is the endpoint's
\* behaviour, n0 the GETs it has answered before this call of _req, last the
\* variable `last`, log the GETs issued so far.
RECURSIVE ReqLoop(_, _, _, _, _, _, _)
ReqLoop(rq, b, n0, i, tries, last, log) ==
  IF i >= tries
    THEN [json |-> NoJson, gets |-> log,
          exc |-> IF last.some THEN last
                  ELSE Exc("RuntimeError", <<"Unknown HTTP error">>)]
  ELSE
    LET a == AnswerOf(b, n0 + i + 1)
        log1 == Append(log, [strategy |-> rq.strategy, coin |-> rq.coin,
                             endpoint |-> rq.endpoint,
                             from |-> rq.from, to |-> rq.to,
                             attempt |-> i, answer |-> a])
    IN IF a.transport
         THEN ReqLoop(rq, b, n0, i + 1, tries, TransportError, log1)
       ELSE IF a.status \in {429, 418}
         THEN ReqLoop(rq, b, n0, i + 1, tries, last, log1)
       ELSE IF 500 <= a.status /\ a.status < 600
         THEN ReqLoop(rq, b, n0, i + 1, tries, last, log1)
       ELSE IF 400 <= a.status
         \* raise_for_status() raises inside the try: HTTPError is a
         \* RequestException, so the except clause takes it and the loop goes on.
         THEN LET e == HTTPErrorOf(a.status, rq)
              IN IF IsRequestException(e)
                   THEN ReqLoop(rq, b, n0, i + 1, tries, e, log1)
                   ELSE [json |-> NoJson, gets |-> log1, exc |-> e]
       ELSE [json |-> BodyOf(rq, a.shape), gets |-> log1, exc |-> NoExc]

\* _req with `range(tries + 1)`: one attempt too many.
_req_extra(rq, b, n0, tries) == ReqLoop(rq, b, n0, 0, tries + 1, NoExc, <<>>)

\* _req(url, params, tries)
_req(rq, b, n0, tries) == ReqLoop(rq, b, n0, 0, tries, NoExc, <<>>)

\* The loop of _fetch_range_segmented.
RECURSIVE RangeLoop(_, _, _, _, _, _, _, _)
RangeLoop(s, cg_id, b, cur, t, window, acc, log) ==
  IF ~(cur < t) THEN [acc |-> acc, gets |-> log, exc |-> NoExc]
  ELSE
    LET end == IF cur + window < t THEN cur + window ELSE t
        r == _req(Request(s, cg_id, "market_chart/range", cur, end), b, Len(log),
                  REQ_TRIES)
    IN IF r.exc.some THEN [acc |-> <<>>, gets |-> log \o r.gets, exc |-> r.exc]
       ELSE RangeLoop(s, cg_id, b, end, t, window, acc \o r.json.prices,
                      log \o r.gets)

\* _fetch_range_segmented asking for the whole interval in one request.
_fetch_range_segmented_whole(s, cg_id, b, days, t) ==
  RangeLoop(s, cg_id, b, t - days * DAY, t, days * DAY, <<>>, <<>>)

\* _fetch_range_segmented(cg_id, days) at time t.
_fetch_range_segmented(s, cg_id, b, days, t) ==
  RangeLoop(s, cg_id, b, t - days * DAY, t, WINDOW_DAYS * DAY, <<>>, <<>>)


-----------------------------------------------------------------------------
(* fetch_daily_prices_with_reason *)

\* What a call leaves behind: the returned pair or the exception that escaped,
\* the GETs issued, the cache keys looked up and written, and the cache
\* directory afterwards.
Ret(path, series, reason, gets, reads, writes, files) ==
  [path |-> path, series |-> series, reason |-> reason, raised |-> FALSE,
   exc |-> NoExc, gets |-> gets, reads |-> reads, writes |-> writes,
   files |-> files]

Raise(e, gets, reads, files) ==
  [path |-> "raise", series |-> <<>>, reason |-> NoneStr, raised |-> TRUE,
   exc |-> e, gets |-> gets, reads |-> reads, writes |-> <<>>, files |-> files]

\* The no-mapping reason without the symbol.
NoMappingReason_anonymous(sym) == <<"no mapping">>

\* f"{sym}: no mapping"
NoMappingReason(sym) == <<sym, ": no mapping">>

\* The stable-coin series with range(days, 0, -1): it ends yesterday.
StableSeries_yesterday(days, t, tzOff) ==
  LET today == date_today(t, tzOff)
  IN [k \in 1..days |-> <<today - (days - k) - 1, ONE_USD>>]

\* The stable-coin series: [(today - i, 1.0) for i in range(days-1, -1, -1)]
StableSeries(days, t, tzOff) ==
  LET today == date_today(t, tzOff)
  IN [k \in 1..days |-> <<today - (days - k), ONE_USD>>]

\* The parent loop reading with _cache_get_raw: a parent of any age is taken.
RECURSIVE ParentLoop_raw(_, _, _, _, _, _, _)
ParentLoop_raw(files, cg_id, days, t, tzOff, i, reads) ==
  IF i > Len(PARENTS) THEN [hit |-> FALSE, series |-> <<>>, reads |-> reads]
  ELSE
    LET parent == PARENTS[i] IN
    IF parent > days
      THEN LET cpar == _cache_get_raw(files, cg_id, parent)
               reads1 == Append(reads, _cache_path(cg_id, parent))
           IN IF TruthyList(cpar)
                THEN LET series_parent == _dedupe_by_day(cpar.val, tzOff)
                     IN IF Len(series_parent) >= days
                          THEN [hit |-> TRUE, reads |-> reads1,
                                series |-> LastN(series_parent, days)]
                          ELSE ParentLoop_raw(files, cg_id, days, t, tzOff, i + 1, reads1)
                ELSE ParentLoop_raw(files, cg_id, days, t, tzOff, i + 1, reads1)
      ELSE ParentLoop_raw(files, cg_id, days, t, tzOff, i + 1, reads)

\* The parent loop `for parent in (365, 180, 90)` from its i-th element on.
RECURSIVE ParentLoop(_, _, _, _, _, _, _)
ParentLoop(files, cg_id, days, t, tzOff, i, reads) ==
  IF i > Len(PARENTS) THEN [hit |-> FALSE, series |-> <<>>, reads |-> reads]
  ELSE
    LET parent == PARENTS[i] IN
    IF parent > days
      THEN LET cpar == _cache_get(files, cg_id, parent, t)
               reads1 == Append(reads, _cache_path(cg_id, parent))
           IN IF TruthyList(cpar)
                THEN LET series_parent == _dedupe_by_day(cpar.val, tzOff)
                     IN IF Len(series_parent) >= days
                          THEN [hit |-> TRUE, reads |-> reads1,
                                series |-> LastN(series_parent, days)]
                          ELSE ParentLoop(files, cg_id, days, t, tzOff, i + 1, reads1)
                ELSE ParentLoop(files, cg_id, days, t, tzOff, i + 1, reads1)
      ELSE ParentLoop(files, cg_id, days, t, tzOff, i + 1, reads)

\* The body of a try block: it returned a series, or fell through with an
\* empty answer, or raised exc.
Returned(series, gets) ==
  [returned |-> TRUE, series |-> series, gets |-> gets, exc |-> NoExc]
FellThrough(gets) ==
  [returned |-> FALSE, series |-> <<>>, gets |-> gets, exc |-> NoExc]
Raised(e, gets) ==
  [returned |-> FALSE, series |-> <<>>, gets |-> gets, exc |-> e]

\* `if len(series) > days: series = series[-days:]`
TrimTo(series, days) == IF Len(series) > days THEN LastN(series, days) ELSE series

\* 1) market_chart (interval=daily)
DailyTry(cg_id, days, b, t, tzOff) ==
  LET r == _req(Request(1, cg_id, "market_chart", t - days * DAY, t), b, 0, REQ_TRIES)
      arr == r.json.prices
  IN IF r.exc.some THEN Raised(r.exc, r.gets)
     ELSE IF arr # <<>>
       THEN Returned(TrimTo(_dedupe_by_day(arr, tzOff), days), r.gets)
       ELSE FellThrough(r.gets)

\* Strategy 2 without `if len(series) > days: series = series[-days:]`.
StandardTry_untrimmed(cg_id, days, b, t, tzOff) ==
  LET r == _req(Request(2, cg_id, "market_chart", t - days * DAY, t), b, 0, REQ_TRIES)
      arr == r.json.prices
  IN IF r.exc.some THEN Raised(r.exc, r.gets)
     ELSE IF arr # <<>>
       THEN Returned(_dedupe_by_day(arr, tzOff), r.gets)
       ELSE FellThrough(r.gets)

\* 2) market_chart (standard)
StandardTry(cg_id, days, b, t, tzOff) ==
  LET r == _req(Request(2, cg_id, "market_chart", t - days * DAY, t), b, 0, REQ_TRIES)
      arr == r.json.prices
  IN IF r.exc.some THEN Raised(r.exc, r.gets)
     ELSE IF arr # <<>>
       THEN Returned(TrimTo(_dedupe_by_day(arr, tzOff), days), r.gets)
       ELSE FellThrough(r.gets)

\* 3) days=max then slice
MaxTry(cg_id, days, b, t, tzOff) ==
  LET r == _req(Request(3, cg_id, "market_chart", t - MaxHistoryDays * DAY, t),
                b, 0, REQ_TRIES)
      arr == r.json.prices
  IN IF r.exc.some THEN Raised(r.exc, r.gets)
     ELSE IF arr # <<>>
       THEN LET series_all == _dedupe_by_day(arr, tzOff)
            IN Returned(IF Len(series_all) > days THEN LastN(series_all, days)
                        ELSE series_all, r.gets)
       ELSE FellThrough(r.gets)

\* next((d for d in allowed if d <= int(days)), 7)
RECURSIVE FirstAllowed(_, _)
FirstAllowed(i, days) ==
  IF i > Len(OHLC_ALLOWED) THEN 7
  ELSE IF OHLC_ALLOWED[i] <= days THEN OHLC_ALLOWED[i]
  ELSE FirstAllowed(i + 1, days)

\* 4) ohlc with nearest allowed period then slice
OhlcTry(cg_id, days, b, t, tzOff) ==
  LET d_used == FirstAllowed(1, days)
      r == _req(Request(4, cg_id, "ohlc", t - d_used * DAY, t), b, 0, REQ_TRIES)
      arr == r.json
  IN IF r.exc.some THEN Raised(r.exc, r.gets)
     ELSE IF arr.isList /\ arr.rows # <<>>
       THEN LET prices == [k \in 1..Len(arr.rows) |->
                             <<arr.rows[k][1], arr.rows[k][5]>>]
            IN Returned(_slice_last_days(_dedupe_by_day(prices, tzOff), days), r.gets)
       ELSE FellThrough(r.gets)

\* 5) range segmented (30d windows)
RangeTry(cg_id, days, b, t, tzOff) ==
  LET r == _fetch_range_segmented(5, cg_id, b, days, t)
      seg == r.acc
  IN IF r.exc.some THEN Raised(r.exc, r.gets)
     ELSE IF seg # <<>>
       THEN Returned(_slice_last_days(_dedupe_by_day(seg, tzOff), days), r.gets)
       ELSE FellThrough(r.gets)

\* The try blocks with the first two in the other order.
StrategyTry_swapped(s, cg_id, days, up, t, tzOff) ==
  CASE s = 1 -> StandardTry(cg_id, days, up[2], t, tzOff)
    [] s = 2 -> DailyTry(cg_id, days, up[1], t, tzOff)
    [] s = 3 -> MaxTry(cg_id, days, up[3], t, tzOff)
    [] s = 4 -> OhlcTry(cg_id, days, up[4], t, tzOff)
    [] s = 5 -> RangeTry(cg_id, days, up[5], t, tzOff)

\* The try block of strategy s.
StrategyTry(s, cg_id, days, up, t, tzOff) ==
  CASE s = 1 -> DailyTry(cg_id, days, up[1], t, tzOff)
    [] s = 2 -> StandardTry(cg_id, days, up[2], t, tzOff)
    [] s = 3 -> MaxTry(cg_id, days, up[3], t, tzOff)
    [] s = 4 -> OhlcTry(cg_id, days, up[4], t, tzOff)
    [] s = 5 -> RangeTry(cg_id, days, up[5], t, tzOff)

STRATEGY_LABEL == <<"daily", "standard", "max", "ohlc", "range">>

\* An except clause that overwrites `reason` instead of appending to it.
ReasonAfter_overwrite(s, reason, e) == <<STRATEGY_LABEL[s], ": ", Arg0(e)>>

\* The assignment to `reason` in the except clause of strategy s.
ReasonAfter(s, reason, e) ==
  IF s = 1 THEN <<STRATEGY_LABEL[1], ": ", Arg0(e)>>
  ELSE OrEmpty(reason) \o <<"; ", STRATEGY_LABEL[s], ": ", Arg0(e)>>

\* `except requests.RequestException` in place of `except Exception`.
StrategyCatches_requests(e) == IsRequestException(e)

\* `except Exception as e` of a strategy's try block: does it take e?
StrategyCatches(e) == IsException(e)

\* The final return with `reason or ''`.
FinalReason_blank(reason) == OrEmpty(reason)

\* `(reason or "no data")` of the final return.
FinalReason(reason) == IF TruthyStr(reason) THEN reason.val ELSE <<"no data">>

\* The five try blocks from strategy s on, and the final return.  AfterTry is
\* what follows the body r of the try block of strategy s: the return inside
\* it, its except clause, or the next block.
RECURSIVE Cascade(_, _, _, _, _, _, _, _, _, _, _)
RECURSIVE AfterTry(_, _, _, _, _, _, _, _, _, _, _, _)
AfterTry(s, sym, cg_id, days, files, up, t, tzOff, io, acc, reads, r) ==
  IF r.exc.some
    THEN IF StrategyCatches(r.exc)
           THEN Cascade(s + 1, sym, cg_id, days, files, up, t, tzOff, io,
                        [reason |-> SomeStr(ReasonAfter(s, acc.reason, r.exc)),
                         gets |-> acc.gets \o r.gets], reads)
           ELSE Raise(r.exc, acc.gets \o r.gets, reads, files)
  ELSE IF r.returned
    THEN Ret(STRATEGY_LABEL[s], r.series, NoneStr, acc.gets \o r.gets, reads,
             <<[key |-> _cache_path(cg_id, days), series |-> r.series]>>,
             _cache_set(files, cg_id, days, Payload(r.series), t, io))
  ELSE Cascade(s + 1, sym, cg_id, days, files, up, t, tzOff, io,
               [reason |-> acc.reason, gets |-> acc.gets \o r.gets], reads)

Cascade(s, sym, cg_id, days, files, up, t, tzOff, io, acc, reads) ==
  IF s > 5
    THEN Ret("exhausted", <<>>, SomeStr(FinalReason(acc.reason)),
             acc.gets, reads, <<>>, files)
    ELSE AfterTry(s, sym, cg_id, days, files, up, t, tzOff, io, acc, reads,
                  StrategyTry(s, cg_id, days, up, t, tzOff))

\* fetch_daily_prices_with_reason(symbol, days) at time t on a machine whose
\* timezone is tzOff, with the cache directory `files`, the upstream `up` and
\* a disk behaving as io.
fetch_daily_prices_with_reason(symbol, days, files, up, t, tzOff, io) ==
  LET sym == Upper(symbol) IN
  IF sym \in STABLES
    THEN Ret("stable", StableSeries(days, t, tzOff), NoneStr, <<>>, <<>>, <<>>, files)
  ELSE IF sym \notin DOMAIN CG_IDS
    THEN Ret("nomapping", <<>>, SomeStr(NoMappingReason(sym)), <<>>, <<>>, <<>>, files)
  ELSE
    LET cg_id == CG_IDS[sym]
        cached == _cache_get(files, cg_id, days, t)
        reads0 == <<_cache_path(cg_id, days)>>
    IN IF TruthyList(cached)
         THEN Ret("exact", _dedupe_by_day(cached.val, tzOff), NoneStr, <<>>, reads0,
                  <<>>, files)
       ELSE
         LET par == ParentLoop(files, cg_id, days, t, tzOff, 1, reads0)
         IN IF par.hit
              THEN Ret("parent", par.series, NoneStr, <<>>, par.reads, <<>>, files)
              ELSE Cascade(1, sym, cg_id, days, files, up, t, tzOff, io,
                           [reason |-> NoneStr, gets |-> <<>>], par.reads)


-----------------------------------------------------------------------------
(* The state machine.  now is the wall clock, tz the machine's UTC offset,  *)
(* cache the cache directory, out the record of the last call: its          *)
(* arguments, the time and the cache directory it started from, and what it *)
(* left behind.  put remembers, for every cache file, the series that was   *)
(* handed to the write that made it.                                        *)

Symbols == {"USDT", "DAI", "XYZ", "BTC", "ETH"}
Windows == {1, 30, 90, 180, 365}
TzOffsets == {0 - 18000, 0, 32400}

\* 20:00 UTC of day 1000.
StartTime == 1000 * DAY + 72000

TickSteps == {1, CACHE_TTL_SECONDS, CACHE_TTL_SECONDS + 1}

Fail429 == Always(Status(429))
Fail503 == Always(Status(503))
Fail404 == Always(Status(404))
FailNet == Always(Transport)
Empty == Always(Ok("empty"))
Daily == Always(Ok("daily"))
Sparse == Always(Ok("sparse"))
Intraday == Always(Ok("intraday"))
Flaky == Then(<<Status(418), Transport>>, Ok("daily"))

FailBehaviours == {Fail429, Fail503, Fail404, FailNet, Empty}
DataBehaviours == {Daily, Sparse, Intraday, Flaky}

\* The upstreams a call of the main specification may meet.
Upstreams ==
  { <<Daily, Daily, Daily, Daily, Daily>>,
    <<Empty, Sparse, Daily, Daily, Daily>>,
    <<Fail404, FailNet, Empty, Intraday, Daily>>,
    <<Fail429, Fail429, Fail429, Fail429, Fail429>> }

NoFiles == [k \in {} |-> 0]

\* The record of a call, without the cache directory (which is `cache`).
Outcome(res) == [f \in DOMAIN res \ {"files"} |-> res[f]]

Idle ==
  [op |-> "none", symbol |-> "", days |-> 0, at |-> 0, before |-> NoFiles,
   res |-> Outcome(Ret("none", <<>>, NoneStr, <<>>, <<>>, <<>>, NoFiles))]

\* put after the writes of a call.
RECURSIVE PutAfter(_, _, _)
PutAfter(p, writes, i) ==
  IF i > Len(writes) THEN p
  ELSE PutAfter([k \in DOMAIN p \cup {writes[i].key} |->
                   IF k = writes[i].key THEN writes[i].series ELSE p[k]],
                writes, i + 1)

\* No helper has been called on its own.
NoCall == [fn |-> "none"]

\* No prewarm batch has run.
NoBatch ==
  [op |-> "none", symbols |-> <<>>, at |-> 0, before |-> NoFiles, ok |-> <<>>,
   skipped |-> <<>>, log |-> <<>>, stopped |-> FALSE]

Init ==
  /\ now = StartTime
  /\ tz \in TzOffsets
  /\ cache = NoFiles
  /\ put = NoFiles
  /\ out = Idle
  /\ calls = 0
  /\ ticks = 0
  /\ batch = NoBatch
  /\ ret = NoCall

\* One call of fetch_daily_prices_with_reason(symbol, days).
Fetch(symbol, days, up) ==
  /\ calls < MaxCalls
  /\ \E res \in {fetch_daily_prices_with_reason(symbol, days, cache, up, now, tz, DiskOk)} :
        /\ cache' = res.files
        /\ put' = PutAfter(put, res.writes, 1)
        /\ out' = [op |-> "fetch", symbol |-> symbol, days |-> days,
                   at |-> now, before |-> cache, res |-> Outcome(res)]
  /\ calls' = calls + 1
  /\ UNCHANGED <<now, tz, ticks, batch, ret>>

\* Time passes between two calls.
Tick(d) ==
  /\ calls > 0
  /\ ticks < MaxTicks
  /\ now' = now + d
  /\ ticks' = ticks + 1
  /\ UNCHANGED <<tz, cache, put, out, calls, batch, ret>>

Next ==
  \/ \E symbol \in Symbols, days \in Windows, up \in Upstreams :
       Fetch(symbol, days, up)
  \/ \E d \in TickSteps : Tick(d)

Spec == Init /\ [][Next]_vars

-----------------------------------------------------------------------------
(* The cascade alone: the first call of a run that starts with an empty     *)
(* cache, against every upstream whose first strategies fail, each in its   *)
(* own way, and whose later ones answer data.                               *)

ColdSymbols == {"BTC"}
ColdWindows == {1, 7, 40}

FailPrefixes == UNION {[1..k -> FailBehaviours] : k \in 0..5}

ColdUpstreams ==
  { [s \in 1..5 |-> IF s <= Len(f) THEN f[s] ELSE g] :
      f \in FailPrefixes, g \in DataBehaviours }

\* The first call of fetch_daily_prices_with_reason(symbol, days).
FetchCold(symbol, days, up) ==
  /\ \E res \in {fetch_daily_prices_with_reason(symbol, days, cache, up, now, tz, DiskOk)} :
        /\ cache' = res.files
        /\ put' = PutAfter(put, res.writes, 1)
        /\ out' = [op |-> "fetch", symbol |-> symbol, days |-> days,
                   at |-> now, before |-> cache, res |-> Outcome(res)]
  /\ UNCHANGED <<now, tz, calls, ticks, batch, ret>>

NextCold ==
  /\ out = Idle
  /\ \E symbol \in ColdSymbols, days \in ColdWindows, up \in ColdUpstreams :
       FetchCold(symbol, days, up)

SpecCold == Init /\ [][NextCold]_vars

-----------------------------------------------------------------------------
(* Smart prewarm: action_prewarm_cache_smart *)

RATE_LIMIT_STOP == 5

\* str(reason): the pieces of a str, joined.
RECURSIVE Join(_, _)
Join(pieces, i) == IF i > Len(pieces) THEN "" ELSE pieces[i] \o Join(pieces, i + 1)

\* `sub in s`
Contains(s, sub) ==
  \E i \in 1..(Len(s) - Len(sub) + 1) : SubSeq(s, i, i + Len(sub) - 1) = sub

\* `"rate" in s.lower()`: some spelling of "rate", in any case, occurs in s.
RateSpellings ==
  {r \o a \o t \o e : r \in {"r", "R"}, a \in {"a", "A"}, t \in {"t", "T"}, e \in {"e", "E"}}
ContainsRate(s) == \E i \in 1..(Len(s) - 3) : SubSeq(s, i, i + 3) \in RateSpellings

\* `reason and ("429" in str(reason) or "rate" in str(reason).lower())`
IsRateLimitText(text) == Contains(text, "429") \/ ContainsRate(text)
IsRateLimitReason(reason) == TruthyStr(reason) /\ IsRateLimitText(Join(reason.val, 1))

\* sorted(CG_IDS.keys())
SortedSymbols == <<"ADA", "BNB", "BTC", "DOGE", "ETH", "SOL", "USDT", "XRP">>

IsPrewarmable(sym) == sym \in DOMAIN CG_IDS /\ sym \notin STABLES

\* The symbols of the batch: those of CG_PREWARM_COINS (env, already split,
\* stripped and upper-cased) that are mapped and not stable, or every mapped
\* non-stable symbol in sorted order when the variable is empty.
PrewarmSymbols(env) ==
  IF env # <<>> THEN SelectSeq(env, IsPrewarmable)
  ELSE SelectSeq(SortedSymbols, IsPrewarmable)

\* `s[-n:] if len(s) > n else s`
TrailingOrAll(series, n) == IF Len(series) > n THEN LastN(series, n) ELSE series

\* The derived windows written without slicing.
DeriveFiles_whole(files, cg_id, series, t) ==
  _cache_set(_cache_set(files, cg_id, 180, Payload(series), t, DiskOk),
             cg_id, 90, Payload(series), t, DiskOk)

\* The writes of the derived windows, in order, and the directory after them
\* (the disk takes the writes of a batch).
WriteOf(cg_id, days, series) == [key |-> _cache_path(cg_id, days), series |-> series]
DeriveFiles(files, cg_id, series, t) ==
  _cache_set(_cache_set(files, cg_id, 180, Payload(TrailingOrAll(series, 180)), t,
                        DiskOk),
             cg_id, 90, Payload(TrailingOrAll(series, 90)), t, DiskOk)
DeriveWrites(cg_id, series) ==
  <<WriteOf(cg_id, 180, TrailingOrAll(series, 180)),
    WriteOf(cg_id, 90, TrailingOrAll(series, 90))>>

\* One symbol's entry in the record of a batch.
Processed(sym, how, gets, classified, count) ==
  [sym |-> sym, how |-> how, gets |-> gets, classified |-> classified, count |-> count]

\* `if consecutive_rate_limits >= 5: skipped.append(...); break`
StopCheck(st) ==
  IF st.count >= RATE_LIMIT_STOP
    THEN [st EXCEPT !.skipped = Append(@, <<"Stopped early due to persistent rate limit.">>),
                    !.stopped = TRUE]
    ELSE st

\* The branch `if raw365:` writing the 365-day file anew as well.
Derived_touch365(sym, cg_id, t, st, series365) ==
  StopCheck([st EXCEPT
    !.files = _cache_set(DeriveFiles(st.files, cg_id, series365, t), cg_id, 365,
                         Payload(series365), t, DiskOk),
    !.writes = @ \o DeriveWrites(cg_id, series365),
    !.ok = Append(@, <<sym, " (cache)">>),
    !.count = 0,
    !.log = Append(@, Processed(sym, "cache", <<>>, FALSE, 0))])

\* The branch `if raw365:` with series365 = _dedupe_by_day(raw365).
Derived(sym, cg_id, t, st, series365) ==
  StopCheck([st EXCEPT
    !.files = DeriveFiles(st.files, cg_id, series365, t),
    !.writes = @ \o DeriveWrites(cg_id, series365),
    !.ok = Append(@, <<sym, " (cache)">>),
    !.count = 0,
    !.log = Append(@, Processed(sym, "cache", <<>>, FALSE, 0))])

\* A skip that keeps the count when the reason is no rate limit.
Skipped_keeps(sym, st, res, classified) ==
  StopCheck([st EXCEPT
    !.files = res.files,
    !.writes = @ \o res.writes,
    !.skipped = Append(@, <<sym, ": ">> \o (IF res.reason.some THEN res.reason.val
                                             ELSE <<"None">>)),
    !.count = IF classified THEN @ + 1 ELSE @,
    !.log = Append(@, Processed(sym, "skipped", res.gets, classified,
                                IF classified THEN st.count + 1 ELSE st.count))])

\* `skipped.append(f"{sym}: {reason}")` and the count after it; classified is
\* the test of the reason for a rate limit.
Skipped(sym, st, res, classified) ==
  StopCheck([st EXCEPT
    !.files = res.files,
    !.writes = @ \o res.writes,
    !.skipped = Append(@, <<sym, ": ">> \o (IF res.reason.some THEN res.reason.val
                                             ELSE <<"None">>)),
    !.count = IF classified THEN @ + 1 ELSE 0,
    !.log = Append(@, Processed(sym, "skipped", res.gets, classified,
                                IF classified THEN st.count + 1 ELSE 0))])

\* The branch `else:` with res the call fetch_daily_prices_with_reason(sym, 365).
Fetched(sym, cg_id, t, st, res) ==
  IF res.raised
    \* except Exception as e: the stop test is skipped and the count kept.
    THEN [st EXCEPT
           !.files = res.files,
           !.writes = @ \o res.writes,
           !.skipped = Append(@, <<sym, ": ", Arg0(res.exc)>>),
           !.log = Append(@, Processed(sym, "raised", res.gets, FALSE, st.count))]
  ELSE IF res.series # <<>>
    THEN StopCheck([st EXCEPT
           !.files = DeriveFiles(_cache_set(res.files, cg_id, 365, Payload(res.series), t,
                                            DiskOk),
                                 cg_id, res.series, t),
           !.writes = @ \o res.writes \o <<WriteOf(cg_id, 365, res.series)>>
                        \o DeriveWrites(cg_id, res.series),
           !.ok = Append(@, <<sym>>),
           !.count = 0,
           !.log = Append(@, Processed(sym, "fetched", res.gets, FALSE, 0))])
  ELSE Skipped(sym, st, res, IsRateLimitReason(res.reason))

\* The body of `for sym in symbols` for one symbol; up is what the upstream
\* does to this symbol's requests.
PrewarmStep(sym, up, t, tzOff, st, raw365) ==
  IF TruthyList(raw365)
    THEN Derived(sym, CG_IDS[sym], t, st, _dedupe_by_day(raw365.val, tzOff))
    ELSE Fetched(sym, CG_IDS[sym], t, st,
                 fetch_daily_prices_with_reason(sym, 365, st.files, up, t, tzOff, DiskOk))

\* The loop from the i-th symbol on.
RECURSIVE PrewarmLoop(_, _, _, _, _, _)
PrewarmLoop(symbols, ups, i, t, tzOff, st) ==
  IF i > Len(symbols) \/ st.stopped THEN st
  ELSE PrewarmLoop(symbols, ups, i + 1, t, tzOff,
                   PrewarmStep(symbols[i], ups[i], t, tzOff, st,
                               _cache_get_raw(st.files, CG_IDS[symbols[i]], 365)))

\* `ok, skipped = [], []` and `consecutive_rate_limits = 0`
PrewarmStart(files) ==
  [files |-> files, writes |-> <<>>, ok |-> <<>>, skipped |-> <<>>, count |-> 0,
   log |-> <<>>, stopped |-> FALSE]

action_prewarm_cache_smart(env, ups, files, t, tzOff) ==
  PrewarmLoop(PrewarmSymbols(env), ups, 1, t, tzOff, PrewarmStart(files))

\* One run of the prewarm handler.  The record keeps what the handler showed
\* (ok, skipped) and, for every symbol it processed, the branch taken, the
\* GETs issued and the consecutive count afterwards.
Prewarm(env, ups) ==
  /\ batch.op = "none"
  /\ PrewarmSymbols(env) # <<>>
  /\ \E st \in {action_prewarm_cache_smart(env, ups, cache, now, tz)} :
        /\ cache' = st.files
        /\ put' = PutAfter(put, st.writes, 1)
        /\ batch' = [op |-> "prewarm", symbols |-> PrewarmSymbols(env), at |-> now,
                     before |-> cache, ok |-> st.ok, skipped |-> st.skipped,
                     log |-> st.log, stopped |-> st.stopped]
  /\ UNCHANGED <<now, tz, out, calls, ticks, ret>>

\* The batches and the upstreams of the prewarm specification: the whole map,
\* or a list from the environment; every symbol of the batch meets the same
\* upstream, but for one that meets another.
PrewarmEnvs == {<<>>, <<"ETH", "USDT", "XYZ", "BTC", "SOL", "DOGE", "ADA">>}

AllDaily == <<Daily, Daily, Daily, Daily, Daily>>
All429 == <<Fail429, Fail429, Fail429, Fail429, Fail429>>
All404 == <<Fail404, Fail404, Fail404, Fail404, Fail404>>
SymbolUpstreams == {AllDaily, All429, All404}

PrewarmUpstreams ==
  { [i \in 1..Len(SortedSymbols) |-> IF i = j THEN b ELSE a] :
      j \in {0, 1, 2, 6}, a \in {All429, All404}, b \in SymbolUpstreams }

\* 20:00 UTC of day 1000, and a time of day 994 whose year-ago timestamp,
\* which the range endpoint's URL carries, reads 54429000.
RateTime == 54429000 + 365 * DAY
PrewarmTimes == {StartTime, RateTime}

\* A call for a year that may have come before the batch.
SeedSymbols == {"BTC", "DOGE"}
SeedUpstreams == {AllDaily, <<Empty, Sparse, Daily, Daily, Daily>>}
PrewarmTicks == {1, CACHE_TTL_SECONDS + 1}

InitPrewarm ==
  /\ now \in PrewarmTimes
  /\ tz \in TzOffsets
  /\ cache = NoFiles
  /\ put = NoFiles
  /\ out = Idle
  /\ calls = 0
  /\ ticks = 0
  /\ batch = NoBatch
  /\ ret = NoCall

NextPrewarm ==
  \/ /\ calls = 0
     /\ batch.op = "none"
     /\ \E symbol \in SeedSymbols, up \in SeedUpstreams : Fetch(symbol, 365, up)
  \/ /\ batch.op = "none"
     /\ \E d \in PrewarmTicks : Tick(d)
  \/ \E env \in PrewarmEnvs, ups \in PrewarmUpstreams : Prewarm(env, ups)

SpecPrewarm == InitPrewarm /\ [][NextPrewarm]_vars

-----------------------------------------------------------------------------
(* A call after a batch: a first call that caches a 365-day series, time     *)
(* passing, a prewarm batch, time passing again, and a call for one of the   *)
(* windows of a symbol of the batch.                                         *)

FollowEnvs == {<<"BTC", "DOGE">>}
FollowUpstreams == {<<AllDaily, AllDaily>>, <<All404, AllDaily>>}
FollowWindows == {365, 180, 90}
FollowTicks == {1, CACHE_TTL_SECONDS}

\* Time passes after the batch.
Later(d) ==
  /\ batch.op = "prewarm"
  /\ now = batch.at
  /\ calls = 1
  /\ now' = now + d
  /\ UNCHANGED <<tz, cache, put, out, calls, ticks, batch, ret>>

\* The call after the batch that followed the first call.
FollowUp(symbol, days, up) ==
  /\ batch.op = "prewarm"
  /\ calls = 1
  /\ Fetch(symbol, days, up)

NextFollow ==
  \/ /\ calls = 0
     /\ batch.op = "none"
     /\ \E symbol \in SeedSymbols, up \in SeedUpstreams : Fetch(symbol, 365, up)
  \/ /\ batch.op = "none"
     /\ \E d \in PrewarmTicks : Tick(d)
  \/ \E env \in FollowEnvs, ups \in FollowUpstreams : Prewarm(env, ups)
  \/ \E d \in FollowTicks : Later(d)
  \/ \E symbol \in SeedSymbols, days \in FollowWindows, up \in {AllDaily, All404} :
       FollowUp(symbol, days, up)

SpecFollow == Init /\ [][NextFollow]_vars

-----------------------------------------------------------------------------
(* _req on its own: one call, with `tries` attempts, against an upstream    *)
(* that answers the attempts one after the other with the given answers.    *)

\* What an attempt may meet.
Answers ==
  {Transport, Status(429), Status(418), Status(503), Status(404), Ok("daily")}

\* The answers to the attempts of a call; no caller asks for more than the
\* default number of tries.
AnswerSeqs == [1..REQ_TRIES -> Answers]

\* The request of the call: the standard chart of a week.
ReqRequest == Request(2, "bitcoin", "market_chart", StartTime - 7 * DAY, StartTime)

CallReq(answers, tries) ==
  /\ ret.fn = "none"
  /\ ret' = [fn |-> "_req", rq |-> ReqRequest, answers |-> answers, tries |-> tries,
             res |-> _req(ReqRequest, Then(answers, answers[Len(answers)]), 0, tries)]
  /\ UNCHANGED <<now, tz, cache, put, out, calls, ticks, batch>>

InitReq == Init /\ tz = 0

NextReq == \E answers \in AnswerSeqs, tries \in 0..REQ_TRIES : CallReq(answers, tries)

SpecReq == InitReq /\ [][NextReq]_vars

-----------------------------------------------------------------------------
(* _dedupe_by_day on its own: one call on a raw point list, in any order,    *)
(* and then a second call on its result, re-encoded the way the engine       *)
(* encodes a series before caching it.                                       *)

MaxPoints == 3

\* Times of three days, early and late in the UTC day, and two prices.
RawTimes ==
  {1000 * DAY, 1000 * DAY + 10800, 1000 * DAY + 79200, 1001 * DAY + 3600}
RawPrices == {ONE_USD, 2 * ONE_USD}
RawPoints == {<<ts, price>> : ts \in RawTimes, price \in RawPrices}
RawLists == UNION {[1..n -> RawPoints] : n \in 0..MaxPoints}

CallDedupe(raw) ==
  /\ ret.fn = "none"
  /\ ret' = [fn |-> "_dedupe_by_day", raw |-> raw, res |-> _dedupe_by_day(raw, tz),
             again |-> <<>>]
  /\ UNCHANGED <<now, tz, cache, put, out, calls, ticks, batch>>

\* _dedupe_by_day([[_ms(d), v] for d, v in series]) on the series returned.
Reapply ==
  /\ ret.fn = "_dedupe_by_day"
  /\ ret' = [ret EXCEPT !.fn = "reapplied",
                        !.again = _dedupe_by_day(Payload(ret.res), tz)]
  /\ UNCHANGED <<now, tz, cache, put, out, calls, ticks, batch>>

NextDedupe ==
  \/ \E raw \in RawLists : CallDedupe(raw)
  \/ Reapply

SpecDedupe == Init /\ [][NextDedupe]_vars

-----------------------------------------------------------------------------
(* Every way a call can end: two calls with time passing between them, of    *)
(* a stable, an unmapped and two mapped symbols, against upstreams whose     *)
(* k-th strategy is the first not to fail and answers data, for every k,     *)
(* and upstreams that never answer data.                                     *)

\* The symbol and the window of a call.
PathCalls ==
  {<<"USDT", 7>>, <<"XYZ", 7>>, <<"BTC", 7>>, <<"BTC", 90>>, <<"ETH", 90>>}
PathUpstreams ==
  { [s \in 1..5 |-> IF s < k THEN Fail404 ELSE g] :
      k \in 1..6, g \in {Daily, Intraday} }
    \cup {<<Empty, Empty, Empty, Empty, Empty>>}
PathTicks == {CACHE_TTL_SECONDS + 1}

FetchPath(symbol, days, up) ==
  /\ calls < MaxCalls
  /\ \E res \in {fetch_daily_prices_with_reason(symbol, days, cache, up, now, tz, DiskOk)} :
        /\ cache' = res.files
        /\ put' = PutAfter(put, res.writes, 1)
        /\ out' = [op |-> "fetch", symbol |-> symbol, days |-> days,
                   at |-> now, before |-> cache, res |-> Outcome(res),
                   up |-> up]
  /\ calls' = calls + 1
  /\ UNCHANGED <<now, tz, ticks, batch, ret>>

NextPaths ==
  \/ \E c \in PathCalls, up \in PathUpstreams : FetchPath(c[1], c[2], up)
  \/ \E d \in PathTicks : Tick(d)

SpecPaths == Init /\ [][NextPaths]_vars

-----------------------------------------------------------------------------
(* Calls on a disk that may refuse a write: a call, time passing, and a      *)
(* second call, each with its own upstream and its own disk behaviour.       *)

DiskSymbols == {"BTC", "USDT"}
DiskWindows == {90, 365}
DiskUpstreams ==
  {<<Daily, Daily, Daily, Daily, Daily>>,
   <<Fail503, Empty, Fail404, Sparse, Daily>>,
   <<Fail429, Fail503, Fail404, FailNet, Fail429>>}

\* One call of fetch_daily_prices_with_reason(symbol, days) on a disk
\* behaving as io.
FetchDisk(symbol, days, up, io) ==
  /\ calls < MaxCalls
  /\ \E res \in {fetch_daily_prices_with_reason(symbol, days, cache, up, now, tz, io)} :
        /\ cache' = res.files
        /\ put' = PutAfter(put, res.writes, 1)
        /\ out' = [op |-> "fetch", symbol |-> symbol, days |-> days,
                   at |-> now, before |-> cache, res |-> Outcome(res),
                   up |-> up, io |-> io]
  /\ calls' = calls + 1
  /\ UNCHANGED <<now, tz, ticks, batch, ret>>

NextDisk ==
  \/ \E symbol \in DiskSymbols, days \in DiskWindows, up \in DiskUpstreams,
        io \in DiskModes :
       FetchDisk(symbol, days, up, io)
  \/ \E d \in TickSteps : Tick(d)

SpecDisk == Init /\ [][NextDisk]_vars

-----------------------------------------------------------------------------
(* The loops over a user's holdings: the line chart (App.draw_line) and the  *)
(* line of the PDF report (App.action_export_pdf_report).  batch holds the   *)
(* loop: the coins in the order of the holdings, the index of the coin in   *)
(* hand, the position in the loop body, what has been collected, and the     *)
(* log of what the loop did.  Delays are in milliseconds.                    *)

THROTTLE_BETWEEN_COINS_MS == 850
REPORT_SLEEP_MS == 200

\* time.sleep(...) at the head of the loop body of each handler.
SleepOf(op) ==
  IF op = "draw_line" THEN THROTTLE_BETWEEN_COINS_MS ELSE REPORT_SLEEP_MS

LoopOps == {"draw_line", "action_export_pdf_report"}
HeldCoins == {"BTC", "XYZ", "USDT"}
\* The holdings with a positive amount, in the order of the dictionary.
Holdings ==
  {h \in UNION {[1..n -> HeldCoins] : n \in 1..Cardinality(HeldCoins)} :
     \A i, j \in 1..Len(h) : i # j => h[i] # h[j]}
LoopWindows == {7}
LoopUpstreams ==
  {<<Daily, Daily, Daily, Daily, Daily>>,
   <<Empty, Empty, Empty, Empty, Empty>>,
   <<Fail404, Fail404, Fail404, Fail404, Fail404>>}

\* The handler reaches `for coin in ...` with a non-empty dictionary.
LoopStart(op, coins, days) ==
  /\ batch.op = "none"
  /\ batch' = [op |-> op, coins |-> coins, days |-> days, i |-> 1, pc |-> "sleep",
               series_by_coin |-> <<>>, failures |-> <<>>, log |-> <<>>]
  /\ UNCHANGED <<now, tz, cache, put, out, calls, ticks, ret>>

\* time.sleep(...)
LoopSleep ==
  /\ batch.op \in LoopOps
  /\ batch.pc = "sleep"
  /\ batch' = [batch EXCEPT
       !.pc = "call",
       !.log = Append(@, [ev |-> "sleep", ms |-> SleepOf(batch.op)])]
  /\ UNCHANGED <<now, tz, cache, put, out, calls, ticks, ret>>

\* fetch_daily_prices_with_reason(coin, days) is entered.
LoopCall ==
  /\ batch.op \in LoopOps
  /\ batch.pc = "call"
  /\ batch' = [batch EXCEPT
       !.pc = "return",
       !.log = Append(@, [ev |-> "call", coin |-> batch.coins[batch.i]])]
  /\ UNCHANGED <<now, tz, cache, put, out, calls, ticks, ret>>

\* The call returns; `if series:` keeps the series, and the chart notes the
\* failure otherwise (`failures.append(reason or coin)`).
LoopReturn(up) ==
  /\ batch.op \in LoopOps
  /\ batch.pc = "return"
  /\ \E coin \in {batch.coins[batch.i]} :
       \E res \in {fetch_daily_prices_with_reason(coin, batch.days, cache, up, now,
                                                  tz, DiskOk)} :
         /\ cache' = res.files
         /\ put' = PutAfter(put, res.writes, 1)
         /\ out' = [op |-> "fetch", symbol |-> coin, days |-> batch.days,
                    at |-> now, before |-> cache, res |-> Outcome(res)]
         /\ batch' = [batch EXCEPT
              !.pc = IF batch.i = Len(batch.coins) THEN "done" ELSE "sleep",
              !.i = @ + 1,
              !.series_by_coin =
                IF res.series # <<>>
                  THEN Append(@, [coin |-> coin, series |-> res.series])
                  ELSE @,
              !.failures =
                IF res.series = <<>> /\ batch.op = "draw_line"
                  THEN Append(@, IF TruthyStr(res.reason) THEN res.reason.val
                                 ELSE <<coin>>)
                  ELSE @,
              !.log = Append(@, [ev |-> "return", coin |-> coin,
                                 empty |-> res.series = <<>>,
                                 gets |-> Len(res.gets)])]
  /\ UNCHANGED <<now, tz, calls, ticks, ret>>

NextLoop ==
  \/ \E op \in LoopOps, coins \in Holdings, days \in LoopWindows :
       LoopStart(op, coins, days)
  \/ LoopSleep
  \/ LoopCall
  \/ \E up \in LoopUpstreams : LoopReturn(up)

SpecLoop == Init /\ [][NextLoop]_vars

-----------------------------------------------------------------------------
(* The segmented range fetch: a call with an empty cache whose first four    *)
(* strategies are answered nothing, so that the fifth runs, against an       *)
(* upstream that answers the GETs of the range endpoint one by one.  ret     *)
(* holds what _fetch_range_segmented itself did, out the whole call.         *)

MaxRangeDays == 65

RangeAnswers == {Status(429), Transport, Ok("empty"), Ok("daily")}
RangeBehaviours ==
  {Then(pre, a) : pre \in UNION {[1..n -> RangeAnswers] : n \in 0..2},
                  a \in {Ok("daily"), Status(503)}}

FetchRange(days, b) ==
  /\ out = Idle
  /\ \E res \in {fetch_daily_prices_with_reason("BTC", days, cache,
                    <<Empty, Empty, Empty, Empty, b>>, now, tz, DiskOk)} :
        /\ cache' = res.files
        /\ put' = PutAfter(put, res.writes, 1)
        /\ out' = [op |-> "fetch", symbol |-> "BTC", days |-> days,
                   at |-> now, before |-> cache, res |-> Outcome(res)]
  /\ ret' = [fn |-> "_fetch_range_segmented", days |-> days, b |-> b,
             res |-> _fetch_range_segmented(5, CG_IDS["BTC"], b, days, now)]
  /\ calls' = calls + 1
  /\ UNCHANGED <<now, tz, ticks, batch>>

InitRange == Init /\ tz = 0

NextRange == \E days \in 1..MaxRangeDays, b \in RangeBehaviours : FetchRange(days, b)

SpecRange == InitRange /\ [][NextRange]_vars

-----------------------------------------------------------------------------
(* _slice_last_days on its own: one call on a series sorted by date, with    *)
(* or without missing days.                                                  *)

MaxSpanDays == 8
MaxSliceDays == 9

FirstDay == date_fromtimestamp(StartTime, 0) - MaxSpanDays + 1
SpanDays == FirstDay..(FirstDay + MaxSpanDays - 1)

\* The series holding one point on each day of ds.
SeriesOn(ds) ==
  IF ds = {} THEN <<>>
  ELSE LET keys == SortedDates(ds)
       IN [k \in 1..Len(keys) |-> <<keys[k], ONE_USD + (keys[k] % 7)>>]

SortedSeries == {SeriesOn(ds) : ds \in SUBSET SpanDays}

CallSlice(series, days) ==
  /\ ret.fn = "none"
  /\ ret' = [fn |-> "_slice_last_days", series |-> series, days |-> days,
             res |-> _slice_last_days(series, days)]
  /\ UNCHANGED <<now, tz, cache, put, out, calls, ticks, batch>>

NextSlice == \E series \in SortedSeries, days \in 1..MaxSliceDays : CallSlice(series, days)

SpecSlice == Init /\ [][NextSlice]_vars

-----------------------------------------------------------------------------
(* Reading the record of the last call *)

Called == out.op = "fetch"
Res == out.res
Sym == Upper(out.symbol)

IsStable == Called /\ Sym \in STABLES
IsUnmapped == Called /\ Sym \notin STABLES /\ Sym \notin DOMAIN CG_IDS
IsMapped == Called /\ Sym \notin STABLES /\ Sym \in DOMAIN CG_IDS

\* The coin and the cache key of a mapped call.
Coin == CG_IDS[Sym]
Key == _cache_path(Coin, out.days)

\* The cache directory did not change during the call.
CacheUntouched == Res.writes = <<>> /\ cache = out.before

\* Age, when the call started, of the file under key k.
Age(k) == out.at - out.before[k].mtime

ExactHit == IsMapped /\ Res.path = "exact"
ParentHit == IsMapped /\ Res.path = "parent"

-----------------------------------------------------------------------------
(* Stable coins and unmapped symbols *)

\* C1: for a stable symbol and a window N >= 1 the call returns exactly N
\* points, on the N consecutive calendar days that end today, every price
\* 1.00, with reason None; it issues no upstream request, looks up no cache
\* key and writes no cache file.
C1_StableFlat ==
  IsStable =>
    /\ Len(Res.series) = out.days
    /\ \A k \in 1..out.days :
         Res.series[k] = <<date_today(out.at, tz) - (out.days - k), ONE_USD>>
    /\ Res.series[out.days][1] = date_today(out.at, tz)
    /\ Res.reason = NoneStr
    /\ ~Res.raised
    /\ Res.gets = <<>>
    /\ Res.reads = <<>>
    /\ CacheUntouched

\* A stable call for a year, on a machine whose local day is not the UTC day,
\* with files in the cache.
C1_Witness ==
  /\ IsStable
  /\ out.days = 365
  /\ out.before # NoFiles
  /\ date_today(out.at, tz) # out.at \div DAY

\* C2: for a symbol that is neither stable nor mapped the call returns the
\* empty series with the reason "<symbol>: no mapping", issues no upstream
\* request and writes no cache file, whatever the cache contains.
C2_NoMapping ==
  IsUnmapped =>
    /\ Res.series = <<>>
    /\ Res.reason = SomeStr(<<out.symbol, ": no mapping">>)
    /\ ~Res.raised
    /\ Res.gets = <<>>
    /\ CacheUntouched

\* An unmapped call while the cache holds files.
C2_Witness ==
  /\ IsUnmapped
  /\ out.days = 30
  /\ out.before # NoFiles

-----------------------------------------------------------------------------
(* The cache *)

\* C7: a series written under (coin, days) and read back within the TTL
\* through the exact-hit path comes back unchanged, same dates and same
\* prices, on every machine.
C7_RoundTrip ==
  ExactHit => Res.series = put[Key]

\* Every key a call may look up.
AllKeys == {_cache_path(CG_IDS[s], d) : s \in DOMAIN CG_IDS, d \in Windows}

\* C8, what the code ensures: _cache_get(coin, days) is a hit exactly when a file exists
\* for that very key and its age is at most the TTL; it is a miss only when
\* the age exceeds the TTL, so at an age of exactly the TTL it is still a hit.
C8_HitIffNotOlderThanTTL ==
  /\ \A k \in AllKeys :
       LET got == _cache_get(cache, k[1], k[2], now)
       IN /\ got.some <=> (k \in DOMAIN cache /\ now - cache[k].mtime <= CACHE_TTL_SECONDS)
          /\ got.some => got.val = cache[k].prices
  /\ IsMapped =>
       (Res.path = "exact" <=> (Key \in DOMAIN out.before /\ Age(Key) <= CACHE_TTL_SECONDS))

\* An exact hit on a file whose age is exactly the TTL.
C8_Witness ==
  /\ ExactHit
  /\ Age(Key) = CACHE_TTL_SECONDS

\* C8, the specification's wording: a hit only at an age strictly below the TTL; at every age
\* >= TTL, the TTL itself included, a miss.
C8_AsStated ==
  /\ \A k \in DOMAIN cache :
       _cache_get(cache, k[1], k[2], now).some => now - cache[k].mtime < CACHE_TTL_SECONDS
  /\ ExactHit => Age(Key) < CACHE_TTL_SECONDS

\* C9: when a fresh entry exists for exactly (coin, days) the call returns
\* from it at once: zero upstream requests, whatever the upstream would have
\* answered, and only that key looked up.
C9_FreshExactHitNoRequest ==
  (IsMapped /\ Key \in DOMAIN out.before /\ Age(Key) < CACHE_TTL_SECONDS) =>
    /\ Res.gets = <<>>
    /\ Res.path = "exact"
    /\ Res.reads = <<Key>>
    /\ Res.reason = NoneStr
    /\ Res.series # <<>>
    /\ CacheUntouched

\* A call that found its own key in the cache, a second old.
C9_Witness ==
  /\ IsMapped
  /\ Key \in DOMAIN out.before
  /\ Age(Key) = 1
  /\ Res.gets = <<>>

\* The parents of the call, in the order of the loop, that are larger than
\* the window, fresh, and were written with at least `days` points.
FreshParent(parent) ==
  LET k == _cache_path(Coin, parent)
  IN /\ parent > out.days
     /\ k \in DOMAIN out.before
     /\ Age(k) < CACHE_TTL_SECONDS
     /\ Len(put[k]) >= out.days

FreshParents == SelectSeq(PARENTS, FreshParent)

\* C10: with no fresh entry for the window itself, the first parent in the
\* order 365, 180, 90 that is larger than the window, fresh and holds at least
\* `days` points supplies the trailing `days` points of the series S that was
\* cached under it, with reason None and without any upstream request.
C10_ParentSlice ==
  (/\ IsMapped
   /\ ~(Key \in DOMAIN out.before /\ Age(Key) < CACHE_TTL_SECONDS)
   /\ ~ExactHit
   /\ FreshParents # <<>>) =>
    /\ Res.series = LastN(put[_cache_path(Coin, FreshParents[1])], out.days)
    /\ Res.reason = NoneStr
    /\ Res.gets = <<>>

-----------------------------------------------------------------------------
(* Reading the GETs of the last call *)

Gets == Res.gets
GetsOf(s) == SelectSeq(Gets, LAMBDA g : g.strategy = s)
Requested(s) == GetsOf(s) # <<>>
LastGet(s) == GetsOf(s)[Len(GetsOf(s))]

IsOk(a) == ~a.transport /\ a.status = 200
IsData(a) == IsOk(a) /\ ShapeTimes(a.shape, 0, DAY) # <<>>

\* How the upstream left strategy s: its last GET was refused or lost (the
\* strategy ended in an error), or every GET it needed was answered and some
\* answer held points (data), or none did (empty).
ErroredIn(s) == Requested(s) /\ ~IsOk(LastGet(s).answer)
YieldedData(s) ==
  /\ Requested(s)
  /\ IsOk(LastGet(s).answer)
  /\ \E i \in 1..Len(GetsOf(s)) : IsData(GetsOf(s)[i].answer)
YieldedEmpty(s) ==
  /\ Requested(s)
  /\ IsOk(LastGet(s).answer)
  /\ \A i \in 1..Len(GetsOf(s)) : ~IsData(GetsOf(s)[i].answer)
FailedIn(s) == ErroredIn(s) \/ YieldedEmpty(s)

AllFailed == Called /\ \A s \in 1..5 : FailedIn(s)

\* The endpoint each strategy asks.
EndpointOf(s) ==
  CASE s \in {1, 2, 3} -> "market_chart"
    [] s = 4 -> "ohlc"
    [] s = 5 -> "market_chart/range"

-----------------------------------------------------------------------------
(* The cascade *)

\* C3: the call never raises.  Whatever the upstream does to each of the five
\* strategies (rate-limit status, 5xx, other HTTP error, transport failure,
\* empty payload), a failure inside one strategy only moves the cascade on to
\* the next one, and when all five have failed the call returns the pair
\* (empty series, reason).
C3_NeverRaises ==
  Called =>
    /\ ~Res.raised
    /\ \A s \in 1..4 : FailedIn(s) => Requested(s + 1)
    /\ AllFailed =>
         /\ Res.series = <<>>
         /\ TruthyStr(Res.reason)
         /\ Res.path = "exhausted"
         /\ CacheUntouched

\* All five strategies failed, each in a different way.
C3_Witness ==
  /\ AllFailed
  /\ {LastGet(s).answer : s \in 1..5} =
       {Status(429), Status(503), Status(404), Transport, Ok("empty")}

\* C4: on a cache miss for a mapped symbol the strategies are requested in the
\* order daily-interval chart, standard chart, max range, OHLC, segmented
\* range; a strategy is requested only after every earlier one has yielded
\* empty data or an error, and once a strategy has yielded data no later one
\* is requested.
C4_CascadeOrder ==
  (IsMapped /\ Res.path \notin {"exact", "parent"}) =>
    /\ Gets # <<>>
    /\ Gets[1].strategy = 1
    /\ \A i \in 1..Len(Gets) : Gets[i].endpoint = EndpointOf(Gets[i].strategy)
    /\ \A i \in 1..(Len(Gets) - 1) :
         Gets[i + 1].strategy \in {Gets[i].strategy, Gets[i].strategy + 1}
    /\ \A s \in 2..5 : Requested(s) => \A e \in 1..(s - 1) : FailedIn(e)
    /\ \A s \in 1..5 : YieldedData(s) =>
         /\ Res.path = STRATEGY_LABEL[s]
         /\ \A l \in (s + 1)..5 : ~Requested(l)

\* The first four strategies failed and the segmented range answered data.
C4_Witness ==
  /\ Called
  /\ \A s \in 1..4 : FailedIn(s)
  /\ ErroredIn(2)
  /\ YieldedEmpty(3)
  /\ YieldedData(5)

\* The calendar day of a raw point on this machine, the days a body covers,
\* and the price of the last point of a day.
DayOf(point) == date_fromtimestamp(point[1], tz)
BodyDays(body) == {DayOf(body[i]) : i \in 1..Len(body)}
LastPriceOn(body, d) ==
  LET i == CHOOSE i \in 1..Len(body) :
             /\ DayOf(body[i]) = d
             /\ \A j \in (i + 1)..Len(body) : DayOf(body[j]) # d
  IN body[i][2]

\* series is body de-duplicated by day (one point per day, the day's last
\* price, days ascending) and cut to its last `days` points.
IsDedupedAndSliced(series, body, days) ==
  /\ Len(series) = IF Cardinality(BodyDays(body)) > days THEN days
                   ELSE Cardinality(BodyDays(body))
  /\ \A k \in 1..(Len(series) - 1) : series[k][1] < series[k + 1][1]
  /\ \A k \in 1..Len(series) :
       /\ series[k][1] \in BodyDays(body)
       /\ series[k][2] = LastPriceOn(body, series[k][1])
  /\ \A d \in BodyDays(body) :
       (series # <<>> /\ d >= series[1][1]) => \E k \in 1..Len(series) : series[k][1] = d

\* The body the standard endpoint answered to the last call.
StandardBody ==
  ChartJson(Coin, 2, LastGet(2).answer.shape, out.at - out.days * DAY, out.at).prices

DailyEmptyStandardData == Called /\ YieldedEmpty(1) /\ YieldedData(2)

\* C5, what the code ensures: if the daily-interval endpoint answers empty and
\* the standard endpoint answers data, the call returns the standard
\* endpoint's points de-duplicated by day and cut to the last `days` points,
\* and the reason is None: a call that returns data reports no failure.
C5_StandardFallback ==
  DailyEmptyStandardData =>
    /\ IsDedupedAndSliced(Res.series, StandardBody, out.days)
    /\ Res.series # <<>>
    /\ Res.reason = NoneStr
    /\ Res.path = "standard"

\* The standard endpoint answered more days than asked, west of UTC.
C5_Witness ==
  /\ DailyEmptyStandardData
  /\ tz < 0
  /\ Cardinality(BodyDays(StandardBody)) > out.days
  /\ out.days = 7

\* C5, the specification's wording: in that case the result is the standard
\* endpoint's de-duplicated, sliced output and the reported reason mentions
\* the failure of the daily-interval strategy.
C5_AsStated ==
  DailyEmptyStandardData =>
    /\ IsDedupedAndSliced(Res.series, StandardBody, out.days)
    /\ TruthyStr(Res.reason)
    /\ \E i \in 1..Len(Res.reason.val) : Res.reason.val[i] = STRATEGY_LABEL[1]

\* The strategy labels that occur in the returned reason, in order.
IsLabel(piece) == \E s \in 1..5 : piece = STRATEGY_LABEL[s]
ReasonLabels == SelectSeq(Res.reason.val, IsLabel)

\* The labels of the strategies that ended in an error, in cascade order.
ErroredLabel(label) == \E s \in 1..5 : label = STRATEGY_LABEL[s] /\ ErroredIn(s)
ErroredLabels == SelectSeq(STRATEGY_LABEL, ErroredLabel)

\* C6, what the code ensures: when all five strategies fail, the returned
\* reason holds one entry "<label>: <message>" for every strategy that ended
\* in an error, in cascade order, the entries after the daily one each led by
\* "; "; a strategy that failed by an empty result adds nothing, and when no
\* strategy ended in an error the reason is "no data".
C6_ReasonOfErrors ==
  AllFailed =>
    /\ Res.reason.some
    /\ ReasonLabels = ErroredLabels
    /\ ErroredLabels = <<>> <=> Res.reason.val = <<"no data">>
    /\ \A i \in 1..Len(Res.reason.val) :
         IsLabel(Res.reason.val[i]) =>
           /\ i + 2 <= Len(Res.reason.val)
           /\ Res.reason.val[i + 1] = ": "
           /\ ~IsLabel(Res.reason.val[i + 2])
           /\ (Res.reason.val[i] # STRATEGY_LABEL[1]) => (i > 1 /\ Res.reason.val[i - 1] = "; ")
    /\ Len(Res.reason.val) =
         IF ErroredLabels = <<>> THEN 1
         ELSE 4 * Len(ErroredLabels) - (IF ErroredIn(1) THEN 1 ELSE 0)

\* All five failed, some by an empty result and some by an error.
C6_Witness ==
  /\ AllFailed
  /\ YieldedEmpty(1)
  /\ ErroredIn(2)
  /\ YieldedEmpty(3)
  /\ ErroredIn(4)
  /\ ErroredIn(5)

\* C6, the specification's wording: when all five strategies fail, each by an
\* empty result or by an error, the reason holds one entry per failed
\* strategy, all five, in cascade order.
C6_AsStated ==
  AllFailed =>
    /\ TruthyStr(Res.reason)
    /\ ReasonLabels = STRATEGY_LABEL

-----------------------------------------------------------------------------
(* The parent fallback and staleness *)

\* The files of larger windows the call found for its coin, with enough
\* points for the window asked.
LargeEnough(parent) ==
  LET k == _cache_path(Coin, parent)
  IN parent > out.days /\ k \in DOMAIN out.before /\ Len(put[k]) >= out.days

WithinTTL(k) == Age(k) <= CACHE_TTL_SECONDS

\* C11, what the code ensures: the parent fallback reads through _cache_get,
\* so it takes a parent only while its file is no older than the TTL; when
\* the window's own file and every larger window's file are older than the
\* TTL, no file serves the call, however many points it holds, and the call
\* goes upstream.
C11_ParentMustBeWithinTTL ==
  IsMapped =>
    /\ Res.path = "parent" =>
         /\ \E i \in 1..Len(PARENTS) :
              /\ LargeEnough(PARENTS[i])
              /\ WithinTTL(_cache_path(Coin, PARENTS[i]))
              /\ Res.reads[Len(Res.reads)] = _cache_path(Coin, PARENTS[i])
         /\ Res.gets = <<>>
    /\ (\A k \in DOMAIN out.before : ~WithinTTL(k)) =>
         /\ Res.path \notin {"exact", "parent"}
         /\ Res.gets # <<>>
         /\ Res.gets[1].strategy = 1

\* A 90-day call that found only a 365-day file, older than the TTL and with
\* points enough, and went upstream.
C11_Witness ==
  /\ IsMapped
  /\ out.days = 90
  /\ DOMAIN out.before = {_cache_path(Coin, 365)}
  /\ LargeEnough(365)
  /\ ~WithinTTL(_cache_path(Coin, 365))
  /\ Res.gets # <<>>

\* C11, the specification's wording: a parent file that has enough points
\* serves the call without an upstream request even when it is older than
\* the TTL.
C11_AsStated ==
  (IsMapped /\ \E i \in 1..Len(PARENTS) : LargeEnough(PARENTS[i])) =>
    Res.gets = <<>>

\* The 365-day file of the call's coin, as the call found it.
Key365 == _cache_path(Coin, 365)
Has365WithinTTL == IsMapped /\ Key365 \in DOMAIN out.before /\ WithinTTL(Key365)

\* C12, what the code ensures: after a call for 365 days went upstream and
\* cached its series, a later call for the same symbol within the TTL issues
\* no upstream request if it asks for 365 days, or if it asks for 180 or 90
\* days and the cached 365-day series holds at least that many points.
C12_OneFetchServesWindows ==
  (/\ Has365WithinTTL
   /\ out.days \in {365, 180, 90}
   /\ (out.days = 365 \/ Len(put[Key365]) >= out.days)) =>
    /\ Res.gets = <<>>
    /\ Res.path \in {"exact", "parent"}
    /\ Res.reason = NoneStr
    /\ Res.path = "parent" => Len(Res.series) = out.days

\* A 180-day call served by slicing the 365-day file, whose age is the TTL.
C12_Witness ==
  /\ Has365WithinTTL
  /\ out.days = 180
  /\ Res.path = "parent"
  /\ Age(Key365) = CACHE_TTL_SECONDS
  /\ DOMAIN out.before = {Key365}

\* C12, the specification's wording: after a 365-day fetch that went upstream,
\* every later call for the same symbol with days in {365, 180, 90} within
\* the TTL issues no upstream request.
C12_AsStated ==
  (Has365WithinTTL /\ out.days \in {365, 180, 90}) => Res.gets = <<>>

-----------------------------------------------------------------------------
(* Reading the record of a prewarm batch *)

Ran == batch.op = "prewarm"
Entries == 1..Len(batch.log)
EntryKey(i, days) == _cache_path(CG_IDS[batch.log[i].sym], days)
ListedIn(list, entry) == \E j \in 1..Len(list) : list[j] = entry

\* The i-th processed symbol had a 365-day file when the batch began.
Had365(i) ==
  /\ EntryKey(i, 365) \in DOMAIN batch.before
  /\ batch.before[EntryKey(i, 365)].prices # <<>>

\* The 365-day series of the i-th processed symbol, as the batch read it.
Series365(i) == _dedupe_by_day(batch.before[EntryKey(i, 365)].prices, tz)

\* The payload of the last n points of a series, or of all of it when it has
\* no more than n.
TailPayload(series, n) ==
  LET from == IF Len(series) > n THEN Len(series) - n ELSE 0
  IN [k \in 1..(Len(series) - from) |->
        <<_ms(series[from + k][1]), series[from + k][2]>>]

\* C13: for a symbol with a 365-day cache file, of any age, prewarm writes a
\* 180-day and a 90-day file holding the last 180 and the last 90 points of
\* the de-duplicated 365-day series (the whole series when it is shorter),
\* leaves the 365-day file as it was, lists the symbol as cached and issues
\* no upstream request for it.
C13_PrewarmDerives ==
  Ran => \A i \in Entries :
    Had365(i) =>
      /\ EntryKey(i, 180) \in DOMAIN cache
      /\ cache[EntryKey(i, 180)].prices = TailPayload(Series365(i), 180)
      /\ EntryKey(i, 90) \in DOMAIN cache
      /\ cache[EntryKey(i, 90)].prices = TailPayload(Series365(i), 90)
      /\ cache[EntryKey(i, 365)] = batch.before[EntryKey(i, 365)]
      /\ ListedIn(batch.ok, <<batch.log[i].sym, " (cache)">>)
      /\ ~ListedIn(batch.skipped, <<batch.log[i].sym>>)
      /\ batch.log[i].how = "cache"
      /\ batch.log[i].gets = <<>>

\* A batch met a symbol whose only file was a 365-day one, older than the TTL
\* and longer than 180 points, on a machine west of UTC.
C13_Witness ==
  /\ Ran
  /\ \E i \in Entries :
       /\ Had365(i)
       /\ DOMAIN batch.before = {EntryKey(i, 365)}
       /\ batch.at - batch.before[EntryKey(i, 365)].mtime > CACHE_TTL_SECONDS
       /\ Len(Series365(i)) > 180
       /\ tz < 0

-----------------------------------------------------------------------------
(* The early stop of a batch *)

StopNotice == <<"Stopped early due to persistent rate limit.">>

\* The upstream answered every request of the i-th processed symbol with a
\* rate-limit status, and the symbol was skipped.
RateLimited(i) ==
  /\ batch.log[i].how = "skipped"
  /\ batch.log[i].gets # <<>>
  /\ \A n \in 1..Len(batch.log[i].gets) :
       LET a == batch.log[i].gets[n].answer
       IN ~a.transport /\ a.status \in {429, 418}

\* The symbols of the batch that were never reached.
Unreached == {batch.symbols[n] : n \in (Len(batch.log) + 1)..Len(batch.symbols)}

\* An entry of a list that is about sym: the symbol alone, or followed by
\* more.
AboutIn(list, sym) == \E j \in 1..Len(list) : list[j][1] = sym

\* C14: if five consecutive symbols of a batch each fail because the upstream
\* answers every request with a rate-limit status, the batch stops after the
\* fifth: no later symbol is processed, none is listed as cached or as
\* skipped, and the skipped list ends with the stop notice.
C14_StopsAfterFiveRateLimits ==
  Ran => \A i \in Entries :
    (i + 4 <= Len(batch.log) /\ \A n \in i..(i + 4) : RateLimited(n)) =>
      /\ Len(batch.log) = i + 4
      /\ batch.stopped
      /\ batch.skipped[Len(batch.skipped)] = StopNotice
      /\ \A sym \in Unreached : ~AboutIn(batch.ok, sym) /\ ~AboutIn(batch.skipped, sym)

\* The text of the reason in the skipped entry of the i-th processed symbol.
SkippedBefore(i) == Cardinality({n \in 1..i : batch.log[n].how \in {"skipped", "raised"}})
ReasonText(i) ==
  LET entry == batch.skipped[SkippedBefore(i)]
  IN Join(SubSeq(entry, 3, Len(entry)), 1)

\* The i-th processed symbol ended in a failure that reads as a rate limit.
ClassifiedRateLimit(i) ==
  /\ batch.log[i].how = "skipped"
  /\ (Contains(ReasonText(i), "429") \/ ContainsRate(ReasonText(i)))

\* The number of symbols up to the i-th, counted back from it, that ended in
\* a failure classified as rate limit with none in between that did not.
RECURSIVE Streak(_)
Streak(i) == IF i = 0 \/ ~ClassifiedRateLimit(i) THEN 0 ELSE 1 + Streak(i - 1)

\* C15: the batch stops before its last symbol only when the five most
\* recently processed symbols all ended in a failure classified as rate
\* limit; a symbol that succeeds, from the cache or from upstream, or fails
\* for another reason puts the consecutive count back to zero.
C15_StopOnlyAfterFiveClassified ==
  Ran =>
    /\ \A i \in Entries :
         /\ batch.log[i].classified <=> ClassifiedRateLimit(i)
         /\ batch.log[i].count = Streak(i)
         /\ ~ClassifiedRateLimit(i) => batch.log[i].count = 0
         /\ (i < Len(batch.log)) => batch.log[i].count < RATE_LIMIT_STOP
    /\ Len(batch.log) < Len(batch.symbols) => batch.stopped
    /\ batch.stopped <=> ListedIn(batch.skipped, StopNotice)
    /\ batch.stopped =>
         /\ Len(batch.log) >= RATE_LIMIT_STOP
         /\ \A i \in (Len(batch.log) - RATE_LIMIT_STOP + 1)..Len(batch.log) :
              ClassifiedRateLimit(i)
         /\ batch.skipped[Len(batch.skipped)] = StopNotice
    /\ ~batch.stopped => Len(batch.log) = Len(batch.symbols)

\* A batch of seven whose first symbol was fetched and whose next five failed
\* with reasons that read as a rate limit: it stopped before the seventh.
C15_Witness ==
  /\ Ran
  /\ batch.stopped
  /\ Len(batch.symbols) = 7
  /\ Len(batch.log) = 6
  /\ batch.log[1].how = "fetched"

-----------------------------------------------------------------------------
(* _req *)

ReqCalled == ret.fn = "_req"

\* The answer the n-th attempt of the call met (n = 1 .. tries).
Attempt(n) == ret.answers[n]
IsRateLimit(a) == ~a.transport /\ a.status \in {429, 418}
IsServerError(a) == ~a.transport /\ 500 <= a.status /\ a.status < 600
IsOtherHttpError(a) ==
  ~a.transport /\ 400 <= a.status /\ ~IsRateLimit(a) /\ ~IsServerError(a)
IsSuccess(a) == ~a.transport /\ a.status = 200

\* The attempts of the call that were made.
Made == Len(ret.res.gets)

\* C16: an HTTP error status that is neither a rate limit nor a 5xx is not
\* retried: the call raises on that attempt and issues no further GET, even
\* when attempts remain.
C16_OtherErrorNotRetried ==
  ReqCalled => \A n \in 1..Made :
    IsOtherHttpError(ret.res.gets[n].answer) =>
      /\ Made = n
      /\ ret.res.exc.some
      /\ ret.res.exc.type = "HTTPError"

\* What the call raised reads as the kind of failure of answer a.
RaisedKindOf(a) ==
  /\ ret.res.exc.some
  /\ IF a.transport THEN ret.res.exc = TransportError
     ELSE IF IsRateLimit(a)
       THEN ret.res.exc.type = "HTTPError" /\ Contains(Arg0(ret.res.exc), ToString(a.status))
     ELSE ret.res.exc = HTTPErrorOf(a.status, ret.rq)

\* C17: when the attempts are used up without a success, the error raised is
\* the one met on the last attempt: a rate-limit error when the last response
\* was 429/418, a server error when it was 5xx, the transport error when the
\* last attempt failed in transport.
C17_RaisesLastError ==
  (ReqCalled /\ ret.tries > 0 /\ \A n \in 1..ret.tries : ~IsSuccess(Attempt(n))) =>
    RaisedKindOf(Attempt(ret.tries))

\* C18: the call ends after at most `tries` GETs.  It returns the JSON of the
\* first successful response and issues no request after it; otherwise it
\* raises once the attempts are used up.  Every attempt issues exactly one
\* GET, whatever it meets: rate limit, 5xx, transport failure.
C18_BoundedAttempts ==
  ReqCalled =>
    /\ Made <= ret.tries
    /\ \A n \in 1..Made :
         /\ ret.res.gets[n].attempt = n - 1
         /\ ret.res.gets[n].answer = Attempt(n)
         /\ n < Made => ~IsSuccess(Attempt(n))
    /\ IF \E n \in 1..ret.tries : IsSuccess(Attempt(n))
         THEN /\ IsSuccess(Attempt(Made))
              /\ ~ret.res.exc.some
              /\ ret.res.json = BodyOf(ret.rq, Attempt(Made).shape)
         ELSE /\ Made = ret.tries
              /\ ret.res.exc.some
              /\ ret.res.json = NoJson

\* A call that met a rate limit, a 5xx and a transport failure, and then a
\* success on the last of its four attempts.
C18_Witness ==
  /\ ReqCalled
  /\ ret.tries = REQ_TRIES
  /\ Made = REQ_TRIES
  /\ IsRateLimit(Attempt(1))
  /\ IsServerError(Attempt(2))
  /\ Attempt(3).transport
  /\ IsSuccess(Attempt(4))

-----------------------------------------------------------------------------
(* _dedupe_by_day *)

Deduped == ret.fn \in {"_dedupe_by_day", "reapplied"}

\* C19: _dedupe_by_day is idempotent: applied to its own output, each date
\* re-encoded as a timestamp by _ms, it yields the same series as applied
\* once.
C19_DedupeIdempotent ==
  ret.fn = "reapplied" => ret.again = ret.res

\* C20: _dedupe_by_day returns exactly one entry for every calendar day (of
\* this machine) that occurs in the input, in strictly ascending order of
\* day, and the price of a day is that of the last point of the day in the
\* order of the input, whatever the timestamps.
C20_OnePerDayLastWins ==
  Deduped =>
    /\ Len(ret.res) = Cardinality(BodyDays(ret.raw))
    /\ \A k \in 1..(Len(ret.res) - 1) : ret.res[k][1] < ret.res[k + 1][1]
    /\ \A k \in 1..Len(ret.res) :
         /\ ret.res[k][1] \in BodyDays(ret.raw)
         /\ ret.res[k][2] = LastPriceOn(ret.raw, ret.res[k][1])
    /\ \A d \in BodyDays(ret.raw) : \E k \in 1..Len(ret.res) : ret.res[k][1] = d

\* An input out of order: two points of one day, the later in the list with
\* the smaller timestamp and another price, and a point of another day before
\* them that belongs after; the day took the price of the later in the list.
C20_Witness ==
  /\ ret.fn = "_dedupe_by_day"
  /\ Len(ret.raw) = 3
  /\ DayOf(ret.raw[1]) > DayOf(ret.raw[2])
  /\ DayOf(ret.raw[2]) = DayOf(ret.raw[3])
  /\ ret.raw[2][1] > ret.raw[3][1]
  /\ ret.raw[2][2] # ret.raw[3][2]
  /\ ret.res = <<<<DayOf(ret.raw[3]), ret.raw[3][2]>>, <<DayOf(ret.raw[1]), ret.raw[1][2]>>>>

\* The UTC calendar day of a point.
UtcDayOf(point) == point[1] \div DAY

\* C21: _dedupe_by_day puts each point on the day given by UTC truncation of
\* its timestamp: two points share a day exactly when their timestamps lie in
\* one UTC day, whatever the timezone of the machine, and the days returned
\* are the UTC days of the input.
C21_UtcDays ==
  Deduped =>
    /\ \A i, j \in 1..Len(ret.raw) :
         (DayOf(ret.raw[i]) = DayOf(ret.raw[j])) <=>
           (UtcDayOf(ret.raw[i]) = UtcDayOf(ret.raw[j]))
    /\ {ret.res[k][1] : k \in 1..Len(ret.res)} =
         {UtcDayOf(ret.raw[i]) : i \in 1..Len(ret.raw)}

-----------------------------------------------------------------------------
(* _slice_last_days *)

Sliced == ret.fn = "_slice_last_days"
LastDate(series) == series[Len(series)][1]

\* C22: for a series sorted ascending by date and N >= 1,
\* _slice_last_days(series, N) is a suffix of the series, no longer than the
\* series, that holds the last point when the series is not empty and spans at
\* most N calendar days from its first to its last point; it keeps exactly the
\* entries dated last date - (N - 1) or later.
C22_SliceIsTrailingSpan ==
  Sliced =>
    LET series == ret.series
        res == ret.res
        n == Len(series)
    IN /\ Len(res) <= n
       /\ res = SubSeq(series, n - Len(res) + 1, n)
       /\ series # <<>> =>
            /\ res # <<>>
            /\ res[Len(res)] = series[n]
            /\ LastDate(res) - res[1][1] + 1 <= ret.days
            /\ res = SelectSeq(series, LAMBDA p : p[1] >= LastDate(series) - (ret.days - 1))
            /\ \A k \in 1..n :
                 (k > n - Len(res)) <=> (series[k][1] >= LastDate(series) - (ret.days - 1))

\* A series with missing days, cut to fewer points than the window asks for
\* although the series has more than that many points.
C22_Witness ==
  /\ Sliced
  /\ Len(ret.series) > ret.days
  /\ Len(ret.res) < ret.days
  /\ Len(ret.res) >= 2
  /\ ret.res[1][1] = LastDate(ret.series) - (ret.days - 1)

-----------------------------------------------------------------------------
(* Cache writes that fail *)

\* The last call handed a series to _cache_set and the disk refused it.
WriteFailed == Called /\ out.io # DiskOk /\ Res.writes # <<>>

\* What the same call returns on a disk that takes the write.
OnGoodDisk ==
  fetch_daily_prices_with_reason(out.symbol, out.days, out.before, out.up,
                                 out.at, tz, DiskOk)

\* C23: when the cache write of a successful strategy fails, the call returns
\* the same (series, None) as when the write succeeds, raises nothing, and
\* leaves the existing cache entries as they were.
C23_WriteFailureSwallowed ==
  WriteFailed =>
    /\ ~Res.raised
    /\ Res.series = OnGoodDisk.series
    /\ Res.series # <<>>
    /\ Res.reason = NoneStr
    /\ \A k \in DOMAIN out.before : cache[k] = out.before[k]

\* The part of C23 about the value returned, which the code does ensure.
C23_SameResult ==
  WriteFailed =>
    /\ ~Res.raised
    /\ Res.series = OnGoodDisk.series
    /\ Res.reason = NoneStr

\* A failed write over an entry that had expired: the dump failed after
\* open(p, "w") had emptied the file.
C23_Truncated ==
  /\ WriteFailed
  /\ out.io = DumpFails
  /\ Key \in DOMAIN out.before
  /\ out.before[Key].whole
  /\ ~cache[Key].whole

-----------------------------------------------------------------------------
(* The loops over the holdings *)

InLoop == batch.op \in LoopOps
LoopDone == InLoop /\ batch.pc = "done"
Kept(coin) ==
  \E k \in 1..Len(batch.series_by_coin) : batch.series_by_coin[k].coin = coin

\* C24: the coins of a chart or a report are resolved one after the other:
\* every call is preceded by a delay of the configured throttle between
\* coins, a call returns before the next delay and the next call begin, and
\* a coin whose series is empty is left out while the coins after it are
\* still resolved.
C24_SequentialThrottled ==
  InLoop =>
    /\ \A k \in 1..Len(batch.log) :
         /\ batch.log[k].ev = "call" =>
              /\ k > 1
              /\ batch.log[k - 1] = [ev |-> "sleep", ms |-> THROTTLE_BETWEEN_COINS_MS]
              /\ k + 1 <= Len(batch.log) =>
                   /\ batch.log[k + 1].ev = "return"
                   /\ batch.log[k + 1].coin = batch.log[k].coin
         /\ batch.log[k].ev = "return" => k > 1 /\ batch.log[k - 1].ev = "call"
    /\ LoopDone =>
         /\ Len(batch.log) = 3 * Len(batch.coins)
         /\ \A i \in 1..Len(batch.coins) :
              /\ batch.log[3 * i].coin = batch.coins[i]
              /\ Kept(batch.coins[i]) <=> ~batch.log[3 * i].empty

\* C24 with the delay each handler really makes.
C24_SequentialWithOwnDelay ==
  InLoop =>
    /\ \A k \in 1..Len(batch.log) :
         /\ batch.log[k].ev = "call" =>
              /\ k > 1
              /\ batch.log[k - 1] = [ev |-> "sleep", ms |-> SleepOf(batch.op)]
              /\ k + 1 <= Len(batch.log) =>
                   /\ batch.log[k + 1].ev = "return"
                   /\ batch.log[k + 1].coin = batch.log[k].coin
         /\ batch.log[k].ev = "return" => k > 1 /\ batch.log[k - 1].ev = "call"
    /\ LoopDone =>
         /\ Len(batch.log) = 3 * Len(batch.coins)
         /\ \A i \in 1..Len(batch.coins) :
              /\ batch.log[3 * i].coin = batch.coins[i]
              /\ Kept(batch.coins[i]) <=> ~batch.log[3 * i].empty

\* A report over three coins, the second resolved to nothing and left out,
\* the third resolved after it.
C24_ReportSkipsAndGoesOn ==
  /\ LoopDone
  /\ batch.op = "action_export_pdf_report"
  /\ Len(batch.coins) = 3
  /\ batch.log[6].empty
  /\ ~batch.log[9].empty
  /\ Len(batch.series_by_coin) = 2

-----------------------------------------------------------------------------
(* The series returned, on every path *)

StrictlyAscending(series) ==
  \A k \in 1..(Len(series) - 1) : series[k][1] < series[k + 1][1]

Paths ==
  {"stable", "nomapping", "exact", "parent", "exhausted"} \cup
    {STRATEGY_LABEL[s] : s \in 1..5}

\* C25: every series returned by fetch_daily_prices_with_reason, whatever
\* the path (stable shortcut, exact cache hit, parent slice, each of the five
\* strategies), is sorted strictly ascending by date, and so has at most one
\* point per calendar day.
C25_OnePointPerDayAscending ==
  Called =>
    /\ Res.path \in Paths
    /\ StrictlyAscending(Res.series)
    /\ \A i, j \in 1..Len(Res.series) :
         Res.series[i][1] = Res.series[j][1] => i = j

\* The max strategy answered seven points eight hours apart, and the series
\* returned has one point for each of their days.
C25_Witness ==
  /\ Called
  /\ Res.path = "max"
  /\ out.up[3] = Intraday
  /\ Len(Res.series) >= 2
  /\ Len(Res.series) < 7

-----------------------------------------------------------------------------
(* What a strategy makes of the points it was answered *)

\* The points of one answered GET: the prices of a chart body, or [ts, close]
\* of each row of an ohlc body.
PointsOf(g) ==
  LET body == BodyOf(g, g.answer.shape)
  IN IF g.endpoint = "ohlc"
       THEN [k \in 1..Len(body.rows) |-> <<body.rows[k][1], body.rows[k][5]>>]
       ELSE body.prices

\* The raw points strategy s obtained in the last call: those of its answered
\* GETs, in the order of the requests.
RECURSIVE PointsFrom(_, _)
PointsFrom(gs, i) ==
  IF i > Len(gs) THEN <<>>
  ELSE (IF IsOk(gs[i].answer) THEN PointsOf(gs[i]) ELSE <<>>) \o PointsFrom(gs, i + 1)
RawOf(s) == PointsFrom(GetsOf(s), 1)

ReturnedBy(s) == Called /\ Res.path = STRATEGY_LABEL[s]
SpanOf(series) ==
  IF series = <<>> THEN 0 ELSE series[Len(series)][1] - series[1][1] + 1

Expected(s) == _slice_last_days(_dedupe_by_day(RawOf(s), tz), out.days)

\* C26: whichever of the five strategies yields non-empty raw points R, the
\* series returned, and cached, is slice_last_days(dedupe_by_day(R), days); so
\* it spans at most `days` calendar days even when R has missing days.
C26_StrategySlicesBySpan ==
  \A s \in 1..5 :
    ReturnedBy(s) =>
      /\ Res.series = Expected(s)
      /\ cache[Key].prices = Payload(Expected(s))
      /\ SpanOf(Res.series) <= out.days

\* What the code ensures instead: the daily, standard and max strategies keep
\* the last `days` points of the de-duplicated series, the ohlc and range
\* strategies the points of its last `days` calendar days.
C26_SlicesAsCoded ==
  \A s \in 1..5 :
    ReturnedBy(s) =>
      LET series == _dedupe_by_day(RawOf(s), tz)
      IN /\ RawOf(s) # <<>>
         /\ Res.series = IF s <= 3 THEN TrimTo(series, out.days)
                         ELSE _slice_last_days(series, out.days)
         /\ cache[Key].prices = Payload(Res.series)

\* The max strategy answered a history with missing days, and the series
\* returned spans more than `days` calendar days.
C26_MaxSpansMore ==
  /\ ReturnedBy(3)
  /\ SpanOf(Res.series) > out.days
  /\ Len(Res.series) = out.days

-----------------------------------------------------------------------------
(* The segmented range fetch *)

Ranged == ret.fn = "_fetch_range_segmented"
RangeGets == ret.res.gets
Answered == SelectSeq(RangeGets, LAMBDA g : IsOk(g.answer))
WindowsAsked == {<<RangeGets[i].from, RangeGets[i].to>> : i \in 1..Len(RangeGets)}
Segments == (ret.days + WINDOW_DAYS - 1) \div WINDOW_DAYS

\* C27: _fetch_range_segmented cuts [now - days, now] into contiguous
\* windows of at most 30 days.  When no request raises it has made exactly
\* ceil(days / 30) ranged requests in ascending order of time (a request that
\* is retried asks its window again), the first from now - days, each next
\* from where the one before ended, the last to now, and returns their
\* points concatenated in that order.  When a request raises, the strategy
\* fails: nothing is returned from the windows already answered, and nothing
\* is cached.
C27_SegmentsPartitionInterval ==
  Ranged =>
    /\ \A i \in 1..Len(RangeGets) :
         /\ RangeGets[i].endpoint = "market_chart/range"
         /\ RangeGets[i].from < RangeGets[i].to
         /\ RangeGets[i].to - RangeGets[i].from <= WINDOW_DAYS * DAY
         /\ i < Len(RangeGets) =>
              IF IsOk(RangeGets[i].answer)
                THEN RangeGets[i + 1].from = RangeGets[i].to
                ELSE /\ RangeGets[i + 1].from = RangeGets[i].from
                     /\ RangeGets[i + 1].to = RangeGets[i].to
    /\ RangeGets # <<>>
    /\ RangeGets[1].from = now - ret.days * DAY
    /\ ~ret.res.exc.some =>
         /\ Len(Answered) = Segments
         /\ Cardinality(WindowsAsked) = Segments
         /\ Answered[Segments].to = now
         /\ ret.res.acc = PointsFrom(RangeGets, 1)
         /\ Res.path \in {"range", "exhausted"}
         /\ Res.path = "range" <=> ret.res.acc # <<>>
    /\ ret.res.exc.some =>
         /\ ret.res.acc = <<>>
         /\ Res.path = "exhausted"
         /\ Res.series = <<>>
         /\ Res.writes = <<>>
         /\ cache = out.before

\* Two windows were answered with points, and the request for the third
\* raised: the call returned nothing and cached nothing.
C27_Witness ==
  /\ Ranged
  /\ ret.days > 2 * WINDOW_DAYS
  /\ ret.res.exc.some
  /\ Len(Answered) = 2
  /\ PointsFrom(RangeGets, 1) # <<>>
  /\ Res.series = <<>>

\* Three windows answered: 30 days, 30 days and the rest.
C27_ThreeWindows ==
  /\ Ranged
  /\ ~ret.res.exc.some
  /\ Len(Answered) = 3
  /\ Answered[3].to - Answered[3].from < WINDOW_DAYS * DAY
  /\ Res.path = "range"

-----------------------------------------------------------------------------
(* What a call writes *)

StrategyPaths == {STRATEGY_LABEL[s] : s \in 1..5}

\* C28: a call writes the cache at most once, and only under the key of its
\* own coin and window, with the series it returns; every other entry, of
\* another coin or another window, is as it was; and nothing is written when
\* the call ends by the stable shortcut, a missing mapping, an exact hit, a
\* parent slice or the exhaustion of the strategies.
C28_WritesOnlyOwnKey ==
  Called =>
    /\ Len(Res.writes) <= 1
    /\ Res.path \in Paths \ StrategyPaths =>
         /\ Res.writes = <<>>
         /\ cache = out.before
    /\ Res.path \in StrategyPaths =>
         /\ Res.writes = <<[key |-> Key, series |-> Res.series]>>
         /\ DOMAIN cache = DOMAIN out.before \cup {Key}
         /\ cache[Key] = WholeFile(Payload(Res.series), out.at)
         /\ \A k \in DOMAIN out.before : k # Key => cache[k] = out.before[k]

\* A second call that went upstream over its own expired entry and wrote it
\* anew.
C28_Witness ==
  /\ Called
  /\ Res.path \in StrategyPaths
  /\ Key \in DOMAIN out.before
  /\ cache[Key] # out.before[Key]
  /\ calls = 2

\* A call that wrote its key beside the entry of another coin.
C28_OtherCoinKept ==
  /\ Called
  /\ Res.path \in StrategyPaths
  /\ \E k \in DOMAIN out.before : k[1] # Coin /\ cache[k] = out.before[k]

-----------------------------------------------------------------------------
(* Series and reason *)

\* C29: whatever the symbol, the window, the cache and the upstream, the call
\* returns a non-empty series exactly when the reason is None: no reason comes
\* with a non-empty series, and an empty series comes with a non-empty reason.
C29_SeriesIffNoReason ==
  Called =>
    /\ ~Res.raised
    /\ Res.series # <<>> <=> Res.reason = NoneStr
    /\ Res.series = <<>> => TruthyStr(Res.reason) /\ Join(Res.reason.val, 1) # ""

\* Three strategies ended in errors, the fourth answered data: the series is
\* returned and the reasons gathered so far are dropped.
C29_Witness ==
  /\ Called
  /\ IsMapped
  /\ ErroredIn(1) /\ ErroredIn(2) /\ ErroredIn(3)
  /\ Res.path = "ohlc"
  /\ Res.series # <<>>
  /\ Res.reason = NoneStr

\* Every strategy was answered nothing: the empty series comes with the
\* reason "no data".
C29_NoData ==
  /\ Called
  /\ Res.path = "exhausted"
  /\ \A s \in 1..5 : YieldedEmpty(s)
  /\ Res.reason = SomeStr(<<"no data">>)

-----------------------------------------------------------------------------
(* A call after a prewarm batch *)

\* The last call came after the batch, within the TTL of it.
FollowedUp ==
  /\ Ran
  /\ Called
  /\ calls = 2
  /\ out.at >= batch.at
  /\ out.at - batch.at <= CACHE_TTL_SECONDS

\* The batch processed the symbol of the call, whose 365-day entry had
\* expired when the batch ran.
DerivedFromStale ==
  \E i \in Entries :
    /\ batch.log[i].sym = Sym
    /\ Had365(i)
    /\ batch.at - batch.before[EntryKey(i, 365)].mtime > CACHE_TTL_SECONDS

\* C30: after prewarm has processed a symbol whose 365-day entry had expired,
\* the 180-day and 90-day entries it derived carry the time of the batch, so
\* that a call for 180 or 90 days that follows within the TTL is served from
\* the cache without any upstream request, while a call for 365 days still
\* misses the cache and goes upstream.
C30_DerivedFreshParentStale ==
  (FollowedUp /\ IsMapped /\ DerivedFromStale) =>
    /\ out.days \in {180, 90} =>
         /\ out.before[Key].mtime = batch.at
         /\ Res.path = "exact"
         /\ Res.gets = <<>>
         /\ Res.series # <<>>
         /\ Res.reason = NoneStr
    /\ out.days = 365 =>
         /\ out.before[Key].mtime < batch.at
         /\ Res.path \notin {"exact", "parent"}
         /\ Res.gets # <<>>

\* A call for 180 days, one TTL after the batch, served from the entry the
\* batch derived from an expired 365-day entry.
C30_Witness ==
  /\ FollowedUp
  /\ IsMapped
  /\ DerivedFromStale
  /\ out.days = 180
  /\ out.at - batch.at = CACHE_TTL_SECONDS
  /\ Res.gets = <<>>

\* A call for 365 days after such a batch, which went upstream.
C30_ParentWentUpstream ==
  /\ FollowedUp
  /\ IsMapped
  /\ DerivedFromStale
  /\ out.days = 365
  /\ Res.gets # <<>>

====
